---- MODULE Spec2Model ----
(***************************************************************************)
(* A model of the MMIO-trace to Verilog generator (package mmio).         *)
(*                                                                         *)
(* Text is modelled as sequences of one-character strings, a trace as a   *)
(* sequence of lines, a line as its leading-blank flag and its            *)
(* whitespace-separated fields.  Integers that python keeps unbounded     *)
(* (the 32-bit register values) are kept as sequences of hexadecimal      *)
(* digits, most significant first, so that no width is lost.              *)
(* Emitted Verilog is a sequence of lines, each line a tuple made of the   *)
(* format string's tag and the values substituted into it.                *)
(***************************************************************************)
EXTENDS Integers, Sequences, FiniteSets, TLC

VARIABLES
    pc,                 \* position of ModularOrchestrator.run
    content,            \* the trace text read by InputOrchestrator.execute
    parsed_results,     \* the list parse_content returned to execute
    next_entry,         \* index of the entry execute's loop passes to from_dict next
    processed_data,     \* execute's dict bar -> entries, in insertion order
    all_instances,      \* _MMIOTracker.all_instances
    address_bit_widths, \* _MMIOTracker.address_bit_widths
    default_values,     \* _MMIOTracker.default_values
    options,            \* the CLIOptions of the current run
    verilog_code,       \* ModularOrchestrator.verilog_code
    sink,               \* the texts handed to the output file manager
    history,            \* content, options and output of the runs completed so far
    parse_out,          \* result of the last parse_content call
    align_in,           \* argument pair of align_address_and_value
    align_out,          \* its result
    verilog_orch,       \* ModularOrchestrator.verilog_orch: BAR number and generators kept
    returned            \* the calls of verilog_orch.build_verilog made so far, with their results

vars == <<pc, content, parsed_results, next_entry, processed_data, all_instances,
          address_bit_widths, default_values, options, verilog_code, sink,
          history, parse_out, align_in, align_out, verilog_orch, returned>>

(***************************************************************************)
(* Characters and hexadecimal digits                                       *)
(***************************************************************************)
LowerHex == <<"0","1","2","3","4","5","6","7","8","9","a","b","c","d","e","f">>

UpperHex == <<"0","1","2","3","4","5","6","7","8","9","A","B","C","D","E","F">>

DecDigits == {"0","1","2","3","4","5","6","7","8","9"}

Range(s) == {s[i] : i \in 1..Len(s)}

\* str.lower() on one character
Lower(c) ==
    IF \E i \in 1..16 : UpperHex[i] = c
    THEN LowerHex[CHOOSE i \in 1..16 : UpperHex[i] = c]
    ELSE c

IsHexChar(c) == Lower(c) \in Range(LowerHex)

\* the value int(c, 16) gives a single hexadecimal digit
HexVal(c) == (CHOOSE i \in 1..16 : LowerHex[i] = Lower(c)) - 1

\* s[n:] and s[-n:] of python
DropFirst(s, n) == IF Len(s) <= n THEN <<>> ELSE SubSeq(s, n + 1, Len(s))

LastN(s, n) == IF Len(s) <= n THEN s ELSE SubSeq(s, Len(s) - n + 1, Len(s))

StartsWith0x(s) == Len(s) >= 2 /\ s[1] = "0" /\ s[2] = "x"

\* the digits int(s, 16) reads: an optional 0x or 0X prefix is dropped
HexBody(s) ==
    IF Len(s) >= 2 /\ s[1] = "0" /\ s[2] \in {"x", "X"} THEN DropFirst(s, 2) ELSE s

\* int(s, 16) does not raise ValueError
IsHexInt(s) == Len(HexBody(s)) >= 1 /\ \A i \in 1..Len(HexBody(s)) : IsHexChar(HexBody(s)[i])

\* int(s, 16) as a sequence of digit values, most significant first
HexInt(s) == [i \in 1..Len(HexBody(s)) |-> HexVal(HexBody(s)[i])]

Zeros(n) == [i \in 1..n |-> 0]

\* (n << shift) for a shift that is a multiple of 4
ShiftLeft(n, shift) == n \o Zeros(shift \div 4)

\* the shifted value without the mask
Unmasked(n) == n

\* n & 0xFFFFFFFF as exactly 8 digit values
Mask32(n) == LastN(Zeros(8) \o n, 8)

RECURSIVE StripZeros(_)
StripZeros(n) == IF Len(n) > 1 /\ n[1] = 0 THEN StripZeros(Tail(n)) ELSE n

\* f"{n:0<width>x}" and f"{n:0<width>X}": at least width digits, no truncation
FormatHex(n, width, digits) ==
    LET m == IF n = <<>> THEN <<0>> ELSE StripZeros(n)
        padded == IF Len(m) >= width THEN m ELSE Zeros(width - Len(m)) \o m
    IN  [i \in 1..Len(padded) |-> digits[padded[i] + 1]]

\* int.bit_length() of a digit sequence
NibbleBits(d) == IF d = 0 THEN 0 ELSE IF d < 2 THEN 1 ELSE IF d < 4 THEN 2 ELSE IF d < 8 THEN 3 ELSE 4

BitLength(n) ==
    LET m == IF n = <<>> THEN <<0>> ELSE StripZeros(n)
    IN  IF m = <<0>> THEN 0 ELSE 4 * (Len(m) - 1) + NibbleBits(m[1])

\* int.bit_length() of a small natural number
RECURSIVE NatBitLength(_)
NatBitLength(k) == IF k = 0 THEN 0 ELSE 1 + NatBitLength(k \div 2)

(***************************************************************************)
(* MMIOParseLogic: byte-lane alignment                                     *)
(***************************************************************************)
\* addr_hex[:-1] + c
ReplaceLast(s, c) == (IF s = <<>> THEN <<>> ELSE SubSeq(s, 1, Len(s) - 1)) \o <<c>>

\* the table of last_char_to_shift_amount, keyed by the lowered character
ShiftTable(addr_hex, lc) ==
    IF lc \in {"1","2","3","0"}
    THEN LET base_addr == ReplaceLast(addr_hex, "0") IN
         CASE lc = "0" -> <<base_addr, 0>>
           [] lc = "1" -> <<base_addr, 8>>
           [] lc = "2" -> <<base_addr, 16>>
           [] lc = "3" -> <<base_addr, 24>>
    ELSE IF lc \in {"5","6","7","4"}
    THEN LET base_addr == ReplaceLast(addr_hex, "4") IN
         CASE lc = "4" -> <<base_addr, 0>>
           [] lc = "5" -> <<base_addr, 8>>
           [] lc = "6" -> <<base_addr, 16>>
           [] lc = "7" -> <<base_addr, 24>>
    ELSE IF lc \in {"9","a","b","8"}
    THEN LET base_addr == ReplaceLast(addr_hex, "8") IN
         CASE lc = "8" -> <<base_addr, 0>>
           [] lc = "9" -> <<base_addr, 8>>
           [] lc = "a" -> <<base_addr, 16>>
           [] lc = "b" -> <<base_addr, 24>>
    ELSE IF lc \in {"d","e","f","c"}
    THEN LET base_addr == ReplaceLast(addr_hex, "c") IN
         CASE lc = "c" -> <<base_addr, 0>>
           [] lc = "d" -> <<base_addr, 8>>
           [] lc = "e" -> <<base_addr, 16>>
           [] lc = "f" -> <<base_addr, 24>>
    ELSE <<addr_hex, 0>>

\* the same function without last_char.lower()
last_char_to_shift_amount_no_lower(addr_hex, last_char) == ShiftTable(addr_hex, last_char)

last_char_to_shift_amount(addr_hex, last_char) == ShiftTable(addr_hex, Lower(last_char))

\* align_address_and_value(addr, value), defined when int(value, 16) does not raise
align_address_and_value(addr, value) ==
    LET last_char == addr[Len(addr)]
        r == last_char_to_shift_amount(DropFirst(addr, 2), last_char)
        value_int == HexInt(value)
        hex_value == FormatHex(Mask32(ShiftLeft(value_int, r[2])), 8, LowerHex)
    IN  <<r[1], hex_value>>

(***************************************************************************)
(* MMIOParseLogic.parse_line and MMIOParser.parse_content                  *)
(***************************************************************************)
\* int(s): an optional sign and decimal digits
IsDecInt(s) ==
    LET body == IF Len(s) >= 1 /\ s[1] \in {"-", "+"} THEN Tail(s) ELSE s
    IN  Len(body) >= 1 /\ \A i \in 1..Len(body) : body[i] \in DecDigits

RECURSIVE DecNat(_)
DecNat(s) == IF s = <<>> THEN 0 ELSE 10 * DecNat(SubSeq(s, 1, Len(s) - 1)) + HexVal(s[Len(s)])

DecInt(s) ==
    IF s[1] = "-" THEN 0 - DecNat(Tail(s))
    ELSE IF s[1] = "+" THEN DecNat(Tail(s)) ELSE DecNat(s)

\* float(s) for the spellings sign, digits, optional point and digits
DotsOf(s) == {i \in 1..Len(s) : s[i] = "."}

IsFloat(s) ==
    LET body == IF Len(s) >= 1 /\ s[1] = "-" THEN Tail(s) ELSE s
    IN  /\ Len(body) >= 1
        /\ \A i \in 1..Len(body) : body[i] \in DecDigits \cup {"."}
        /\ Cardinality(DotsOf(body)) <= 1
        /\ \E i \in 1..Len(body) : body[i] \in DecDigits

\* the float as its sign, whole digits and fraction digits
Float(s) ==
    LET neg  == s[1] = "-"
        body == IF neg THEN Tail(s) ELSE s
        dot  == IF DotsOf(body) = {} THEN Len(body) + 1 ELSE CHOOSE i \in DotsOf(body) : TRUE
    IN  [neg |-> neg, whole |-> SubSeq(body, 1, dot - 1), frac |-> DropFirst(body, dot)]

\* line.strip().startswith(("W", "R"))
is_valid_line(line) == line.parts # <<>> /\ line.parts[1][1] \in {"W", "R"}

is_write(line) == line.parts # <<>> /\ line.parts[1][1] = "W"

is_valid_hex(value) == StartsWith0x(value) /\ IsHexInt(value)

NoRecord == [operation |-> "", counter |-> 0, timestamp |-> [neg |-> FALSE, whole |-> <<>>, frac |-> <<>>], bar |-> 0, address |-> <<>>, value |-> <<>>]

Raise(kind) == [raised |-> kind, rec |-> NoRecord]

\* the record parse_line returns once every check has passed
LineRecord(line) ==
    LET parts   == line.parts
        aligned == align_address_and_value(parts[5], parts[6])
    IN  [operation |-> IF is_write(line) THEN "W" ELSE "R",
         counter   |-> DecInt(parts[2]),
         timestamp |-> Float(parts[3]),
         bar       |-> DecInt(parts[4]),
         address   |-> aligned[1],
         value     |-> aligned[2]]

\* parse_line without the field-count check: indexing a short line raises IndexError
parse_line_unchecked_count(line) ==
    LET parts == line.parts IN
    IF ~is_valid_line(line) THEN Raise("ValueError")
    ELSE IF Len(parts) < 6 THEN Raise("IndexError")
    ELSE IF Len(DropFirst(parts[5], 2)) < 1 THEN Raise("ValueError")
    ELSE IF ~IsDecInt(parts[4]) THEN Raise("ValueError")
    ELSE IF ~IsHexInt(parts[6]) THEN Raise("ValueError")
    ELSE IF ~(is_valid_hex(parts[5]) /\ is_valid_hex(parts[6])) THEN Raise("ValueError")
    ELSE IF ~(IsDecInt(parts[2]) /\ IsFloat(parts[3])) THEN Raise("ValueError")
    ELSE [raised |-> "", rec |-> LineRecord(line)]

parse_line(line) ==
    LET parts == line.parts IN
    IF ~is_valid_line(line) THEN Raise("ValueError")
    ELSE IF Len(parts) # 8 THEN Raise("ValueError")
    ELSE IF Len(DropFirst(parts[5], 2)) < 1 THEN Raise("ValueError")
    ELSE IF ~IsDecInt(parts[4]) THEN Raise("ValueError")
    ELSE IF ~IsHexInt(parts[6]) THEN Raise("ValueError")
    ELSE IF ~(is_valid_hex(parts[5]) /\ is_valid_hex(parts[6])) THEN Raise("ValueError")
    ELSE IF ~(IsDecInt(parts[2]) /\ IsFloat(parts[3])) THEN Raise("ValueError")
    ELSE [raised |-> "", rec |-> LineRecord(line)]

\* line.startswith("R") or line.startswith("W"), on the unstripped line
StartsWithRW(line) == ~line.lead /\ line.parts # <<>> /\ line.parts[1][1] \in {"R", "W"}

\* content.strip() is empty
IsBlankContent(text) == \A i \in 1..Len(text) : text[i].parts = <<>>

\* the loop of parse_content over lines[from..]; acc is parsed_data so far
RECURSIVE ParseLoop(_, _, _)
ParseLoop(lines, from, acc) ==
    IF from > Len(lines) THEN [raised |-> "", data |-> acc]
    ELSE IF ~StartsWithRW(lines[from]) THEN ParseLoop(lines, from + 1, acc)
    ELSE LET r == parse_line(lines[from]) IN
         IF r.raised \in {"ValueError", "KeyError"} THEN ParseLoop(lines, from + 1, acc)
         ELSE IF r.raised # "" THEN [raised |-> "MMIOParserError", data |-> <<>>]
         ELSE ParseLoop(lines, from + 1,
                  Append(acc, [r.rec EXCEPT !.value = FormatHex(HexInt(r.rec.value), 8, UpperHex)]))

parse_content(text) ==
    IF IsBlankContent(text) THEN [raised |-> "", data |-> <<>>]
    ELSE ParseLoop(text, 1, <<>>)

(***************************************************************************)
(* VerilogData and _MMIOTracker: the observation registry                  *)
(***************************************************************************)
EmptyMap == [x \in {} |-> 0]

MaxOf(a, b) == IF a >= b THEN a ELSE b

\* value.replace("0x", "")
RECURSIVE remove_0x(_)
remove_0x(s) ==
    IF Len(s) < 2 THEN s
    ELSE IF s[1] = "0" /\ s[2] = "x" THEN remove_0x(DropFirst(s, 2))
    ELSE <<s[1]>> \o remove_0x(Tail(s))

\* format_value without the zero padding of its format strings
format_value_unpadded(value, is_address) == FormatHex(HexInt(value), 1, UpperHex)

\* format_value: int(value, 16) rendered %05X for an address, %08X otherwise
format_value(value, is_address) ==
    IF is_address THEN FormatHex(HexInt(value), 5, UpperHex) ELSE FormatHex(HexInt(value), 8, UpperHex)

\* validate_address returning the whole string
validate_address_untruncated(value) == value

\* validate_address on a string that parses as hexadecimal: value[-5:]
validate_address(value) == LastN(value, 5)

\* the range check with its lower limit left out
validate_bar_no_lower_limit(value) == value = 0 \/ value <= 9

validate_bar(value) == value = 0 \/ (0 <= value /\ value <= 9)

validate_operation(value) == value \in {"R", "W"}

\* validate_timestamp: value < 0 raises
validate_timestamp(ts) ==
    ~(ts.neg /\ \E i \in 1..Len(ts.whole \o ts.frac) : (ts.whole \o ts.frac)[i] # "0")

\* str(float) keeps no trailing zero of the fraction beyond the first digit
RECURSIVE RStripZeroChars(_)
RStripZeroChars(s) ==
    IF Len(s) > 1 /\ s[Len(s)] = "0" THEN RStripZeroChars(SubSeq(s, 1, Len(s) - 1)) ELSE s

\* normalize_timestamp: int(str(ts)[-1] + str(ts).split(".")[1].ljust(6, "0"))
normalize_timestamp(ts) ==
    LET frac  == IF ts.frac = <<>> THEN <<"0">> ELSE RStripZeroChars(ts.frac)
        nanos == IF Len(frac) >= 6 THEN frac ELSE frac \o [i \in 1..(6 - Len(frac)) |-> "0"]
    IN  DecNat(<<frac[Len(frac)]>> \o nanos)

\* calculate_bit_width of a non-empty hexadecimal string
calculate_bit_width(value) == MaxOf(BitLength(HexInt(value)), 1)

NoInstance == [operation |-> "", bar |-> 0, address |-> <<>>, value |-> <<>>, timestamp |-> 0]

\* VerilogData(...) followed by format_and_validate(): the instance, or the error raised.
\* The entries are those of parse_content, whose address and value are hexadecimal
\* digits, so format_value never returns None here.
from_dict(entry) ==
    IF ~validate_operation(entry.operation) \/ ~validate_bar(entry.bar)
       \/ ~IsHexInt(entry.address) \/ ~validate_timestamp(entry.timestamp)
    THEN [raised |-> "ValidationError", instance |-> NoInstance]
    ELSE LET address0 == validate_address(entry.address)
             value1   == remove_0x(entry.value)
             address1 == remove_0x(address0)
         IN  [raised |-> "",
              instance |-> [operation |-> entry.operation,
                            bar       |-> entry.bar,
                            address   |-> validate_address(format_value(address1, TRUE)),
                            value     |-> format_value(value1, FALSE),
                            timestamp |-> normalize_timestamp(entry.timestamp)]]

add_instance(instances, instance) == Append(instances, instance)

\* the width update without the max: the latest value's width is stored
update_address_bit_width_overwrite(widths, address, value) ==
    [a \in DOMAIN widths \cup {address} |->
        IF a = address THEN calculate_bit_width(value) ELSE widths[a]]

\* the width update that keeps the width of the first value of an address
update_address_bit_width_first(widths, address, value) ==
    [a \in DOMAIN widths \cup {address} |->
        IF a \in DOMAIN widths THEN widths[a] ELSE calculate_bit_width(value)]

update_address_bit_width(widths, address, value) ==
    LET current_width  == calculate_bit_width(value)
        existing_width == IF address \in DOMAIN widths THEN widths[address] ELSE 0
    IN  [a \in DOMAIN widths \cup {address} |->
            IF a = address THEN MaxOf(current_width, existing_width) ELSE widths[a]]

ZeroWord == <<"0","0","0","0","0","0","0","0">>

update_default_values(defaults, bar, operation, value) ==
    LET current_defaults == IF bar \in DOMAIN defaults THEN defaults[bar] ELSE <<ZeroWord, ZeroWord>>
    IN  [b \in DOMAIN defaults \cup {bar} |->
            IF b # bar THEN defaults[b]
            ELSE IF operation = "R" THEN <<value, current_defaults[2]>>
            ELSE <<current_defaults[1], value>>]

get_default_values(reg, bar) ==
    IF bar \in DOMAIN reg.default_values THEN reg.default_values[bar] ELSE <<ZeroWord, ZeroWord>>

\* the registry after from_dict has tracked one validated instance
Track(reg, instance) ==
    [all_instances      |-> add_instance(reg.all_instances, instance),
     address_bit_widths |-> update_address_bit_width(reg.address_bit_widths, instance.address, instance.value),
     default_values     |-> update_default_values(reg.default_values, instance.bar, instance.operation, instance.value)]

EmptyRegistry == [all_instances |-> <<>>, address_bit_widths |-> EmptyMap, default_values |-> EmptyMap]

Registry == [all_instances |-> all_instances, address_bit_widths |-> address_bit_widths, default_values |-> default_values]

\* the registry of a run that starts from nothing and ingests the text
RECURSIVE TrackAll(_, _, _)
TrackAll(reg, entries, from) ==
    IF from > Len(entries) THEN reg
    ELSE LET r == from_dict(entries[from])
         IN  TrackAll(IF r.raised # "" THEN reg ELSE Track(reg, r.instance), entries, from + 1)

FreshRegistry(text) == TrackAll(EmptyRegistry, parse_content(text).data, 1)

\* VerilogData.addresses(bar)
addresses(reg, bar) ==
    LET Test(d) == d.bar = bar
        sel == SelectSeq(reg.all_instances, Test)
    IN  [i \in 1..Len(sel) |-> sel[i].address]

get_bar_address_bit_widths(reg, bar) ==
    [a \in DOMAIN reg.address_bit_widths \cap Range(addresses(reg, bar)) |-> reg.address_bit_widths[a]]

(***************************************************************************)
(* The generators.  A fragment is a sequence of lines; a line is a tuple    *)
(* of the tag of its format string and the values written into it.         *)
(***************************************************************************)
Blank == <<"blank">>

\* code.strip() is empty
IsBlankText(text) == \A i \in 1..Len(text) : text[i] = Blank

RECURSIVE Flatten(_)
Flatten(texts) == IF texts = <<>> THEN <<>> ELSE Head(texts) \o Flatten(Tail(texts))

\* string order of two upper-case hexadecimal strings
RECURSIVE StrLess(_, _)
StrLess(a, b) ==
    IF b = <<>> THEN FALSE
    ELSE IF a = <<>> THEN TRUE
    ELSE IF a[1] = b[1] THEN StrLess(Tail(a), Tail(b))
    ELSE HexVal(a[1]) < HexVal(b[1])

RECURSIVE SortSet(_)
SortSet(S) ==
    IF S = {} THEN <<>>
    ELSE LET m == CHOOSE x \in S : \A y \in S \ {x} : StrLess(x, y)
         IN  <<m>> \o SortSet(S \ {m})

\* sorted(set(addresses), reverse=True)
get_unique_addresses_descending(addrs) ==
    LET ascending == SortSet(Range(addrs))
    IN  [i \in 1..Len(ascending) |-> ascending[Len(ascending) + 1 - i]]

\* sorted(set(addresses))
get_unique_sorted_addresses(addrs) == SortSet(Range(addrs))

\* the addresses of the instances of one operation and BAR, in registry order
OperationAddrs(reg, operation, bar) ==
    LET Test(d) == d.operation = operation /\ d.bar = bar
        sel == SelectSeq(reg.all_instances, Test)
    IN  [i \in 1..Len(sel) |-> sel[i].address]

\* the keys of a dict filled in registry order
RECURSIVE FirstSeen(_)
FirstSeen(addrs) ==
    IF addrs = <<>> THEN <<>>
    ELSE LET rest == FirstSeen(SubSeq(addrs, 1, Len(addrs) - 1))
             a    == addrs[Len(addrs)]
         IN  IF a \in Range(rest) THEN rest ELSE Append(rest, a)

get_rom_values_for_address(reg, bar, address, operation) ==
    LET Test(d) == d.bar = bar /\ d.address = address /\ d.operation = operation
        sel == SelectSeq(reg.all_instances, Test)
    IN  [i \in 1..Len(sel) |-> sel[i].value]

\* the ROM declarations with the number of values written as the last index
generate_roms_sized_by_count(reg, bar_number, operation) ==
    LET address_widths == get_bar_address_bit_widths(reg, bar_number)
        unique == get_unique_sorted_addresses(OperationAddrs(reg, operation, bar_number))
        Decl(address) ==
            LET bit_width == IF address \in DOMAIN address_widths THEN address_widths[address] ELSE 0
                values == get_rom_values_for_address(reg, bar_number, address, operation)
            IN  IF values = <<>> THEN <<>>
                ELSE << <<"rom", operation, address, bit_width - 1, Len(values)>> >>
    IN  Flatten([i \in 1..Len(unique) |-> Decl(unique[i])])

\* generate_read_roms / generate_write_roms
generate_roms(reg, bar_number, operation) ==
    LET address_widths == get_bar_address_bit_widths(reg, bar_number)
        unique == get_unique_sorted_addresses(OperationAddrs(reg, operation, bar_number))
        Decl(address) ==
            LET bit_width == IF address \in DOMAIN address_widths THEN address_widths[address] ELSE 0
                values == get_rom_values_for_address(reg, bar_number, address, operation)
            IN  IF values = <<>> THEN <<>>
                ELSE << <<"rom", operation, address, bit_width - 1, Len(values) - 1>> >>
    IN  Flatten([i \in 1..Len(unique) |-> Decl(unique[i])])

\* ROM initialisation that walks the values newest first
initialize_roms_reversed(reg, bar_number, operation) ==
    LET keys == FirstSeen(OperationAddrs(reg, operation, bar_number))
        Init1(address) ==
            LET values == get_rom_values_for_address(reg, bar_number, address, operation)
            IN  [i \in 1..Len(values) |-> <<"rom_init", operation, address, i - 1, values[Len(values) + 1 - i]>>]
    IN  Flatten([k \in 1..Len(keys) |-> Init1(keys[k])]) \o <<Blank>>

\* get_address_value_pairs and initialize_read_roms / initialize_write_roms
initialize_roms(reg, bar_number, operation) ==
    LET keys == FirstSeen(OperationAddrs(reg, operation, bar_number))
        Init1(address) ==
            LET values == get_rom_values_for_address(reg, bar_number, address, operation)
            IN  [i \in 1..Len(values) |-> <<"rom_init", operation, address, i - 1, values[i]>>]
    IN  Flatten([k \in 1..Len(keys) |-> Init1(keys[k])]) \o <<Blank>>

\* the number of instances of an address and operation, whatever their BAR
OperationCount(reg, address, operation) ==
    Cardinality({i \in 1..Len(reg.all_instances) :
        reg.all_instances[i].address = address /\ reg.all_instances[i].operation = operation})

calculate_counter_width(reg, address, operation) ==
    MaxOf(1, NatBitLength(OperationCount(reg, address, operation)))

\* generate_read_counters / generate_write_counters
generate_counters(reg, bar_number, operation) ==
    LET unique == get_unique_sorted_addresses(OperationAddrs(reg, operation, bar_number))
    IN  [i \in 1..Len(unique) |->
            <<"counter", operation, unique[i], calculate_counter_width(reg, unique[i], operation) - 1>>]

\* reset_read_counters / reset_write_counters
reset_counters(reg, bar_number, operation) ==
    LET unique == get_unique_sorted_addresses(OperationAddrs(reg, operation, bar_number))
    IN  [i \in 1..Len(unique) |-> <<"counter_reset", operation, unique[i]>>]

\* addr.zfill(4)
ZFill4(addr) == IF Len(addr) >= 4 THEN addr ELSE [i \in 1..(4 - Len(addr)) |-> "0"] \o addr

\* the address check whose loop stops after the last full group of 8
generate_address_check_full_groups(reg, bar_number, operation) ==
    LET sorted == get_unique_sorted_addresses(OperationAddrs(reg, operation, bar_number))
        n      == Len(sorted)
        groups == IF n < 8 THEN 1 ELSE n \div 8
        Group(g) == [j \in 1..(IF 8 * g <= n THEN 8 ELSE n - 8 * (g - 1)) |-> ZFill4(sorted[8 * (g - 1) + j])]
    IN  IF n = 0 THEN <<>>
        ELSE << <<"function", operation>>, <<"input", 19, "addr">>, <<"begin">>, <<"case", "addr">> >>
             \o [g \in 1..groups |-> <<"labels", 20, Group(g), IF 8 * g < n THEN "," ELSE ":">>]
             \o << <<"check", operation, 1>>, <<"default_check", operation, 0>>, <<"endcase">>,
                   <<"end">>, <<"endfunction">>, Blank >>

\* generate_read_address_check / generate_write_address_check
generate_address_check(reg, bar_number, operation) ==
    LET sorted == get_unique_sorted_addresses(OperationAddrs(reg, operation, bar_number))
        n      == Len(sorted)
        groups == (n + 7) \div 8
        Group(g) == [j \in 1..(IF 8 * g <= n THEN 8 ELSE n - 8 * (g - 1)) |-> ZFill4(sorted[8 * (g - 1) + j])]
    IN  IF n = 0 THEN <<>>
        ELSE << <<"function", operation>>, <<"input", 19, "addr">>, <<"begin">>, <<"case", "addr">> >>
             \o [g \in 1..groups |-> <<"labels", 20, Group(g), IF 8 * g < n THEN "," ELSE ":">>]
             \o << <<"check", operation, 1>>, <<"default_check", operation, 0>>, <<"endcase">>,
                   <<"end">>, <<"endfunction">>, Blank >>

\* the response logic written even when the direction has no address
generate_logic_unguarded(reg, bar_number, operation) ==
    LET addrs == get_unique_sorted_addresses(OperationAddrs(reg, operation, bar_number))
        default_value == get_default_values(reg, bar_number)[IF operation = "R" THEN 1 ELSE 2]
    IN  << <<"if_begin", operation>>, <<"case", operation>> >>
        \o [i \in 1..Len(addrs) |-> <<"arm_single", 16, operation, addrs[i], 0>>]
        \o << <<"default", operation, default_value>>, <<"endcase">>, <<"end">> >>

\* generate_read_logic / generate_write_logic
generate_logic(reg, bar_number, operation) ==
    LET addrs == get_unique_sorted_addresses(OperationAddrs(reg, operation, bar_number))
        default_value == get_default_values(reg, bar_number)[IF operation = "R" THEN 1 ELSE 2]
        Arm(addr) ==
            LET count == OperationCount(reg, addr, operation)
                counter_width == NatBitLength(count)
            IN  IF count > 1
                THEN << <<"arm_begin", 16, addr>>,
                        <<"counter_step", operation, addr, counter_width, count - 1>>,
                        <<"rom_access", operation, addr, "counter">>,
                        <<"end">> >>
                ELSE << <<"arm_single", 16, operation, addr, 0>> >>
    IN  IF addrs = <<>> THEN <<>>
        ELSE << <<"if_begin", operation>>, <<"case", operation>> >>
             \o Flatten([i \in 1..Len(addrs) |-> Arm(addrs[i])])
             \o << <<"default", operation, default_value>>, <<"endcase">> >>
             \o (IF operation = "R"
                 THEN << <<"rsp_default", default_value>>, <<"end">> >>
                 ELSE << <<"end">>, <<"end">>, <<"end">> >>)

generate_module_header(bar_number) ==
    << <<"module", bar_number>>, <<"ports">>, <<"registers">>,
       <<"wire", 15, "local_read_addr">>, <<"wire", 15, "local_write_addr">>,
       <<"assign", "local_read_addr", 20>>, <<"assign", "local_write_addr", 20>>, Blank, Blank >>

generate_state_machine_start == << <<"always_ff_begin">>, <<"if_rst_begin">>, <<"rst_rsp_valid">> >>

generate_state_machine_end == << <<"end_else_begin">>, <<"latch_requests">> >>

(***************************************************************************)
(* VerilogBuilderOrchestrator and ModularOrchestrator                      *)
(***************************************************************************)
validate_verilog_data(reg, bar_number) ==
    addresses(reg, bar_number) # <<>> /\ DOMAIN get_bar_address_bit_widths(reg, bar_number) # {}

\* _get_operation_value: the read text for "read", the write text otherwise
OperationLetter(operation) == IF operation = "read" THEN "R" ELSE "W"

\* VerilogBuilderOrchestrator.build_verilog: a fresh generator per call
builder_build_verilog(reg, operation, bar_number, field_type) ==
    IF ~validate_verilog_data(reg, bar_number) THEN <<>>
    ELSE CASE field_type = "header"              -> generate_module_header(bar_number)
           [] field_type = "state_machine_start" -> generate_state_machine_start
           [] field_type = "state_machine_end"   -> generate_state_machine_end
           [] field_type = "rom"           -> generate_roms(reg, bar_number, OperationLetter(operation))
           [] field_type = "rom_init"      -> initialize_roms(reg, bar_number, OperationLetter(operation))
           [] field_type = "counter"       -> generate_counters(reg, bar_number, OperationLetter(operation))
           [] field_type = "reset_counter" -> reset_counters(reg, bar_number, OperationLetter(operation))
           [] field_type = "addr_check"    -> generate_address_check(reg, bar_number, OperationLetter(operation))
           [] field_type = "logic"         -> generate_logic(reg, bar_number, OperationLetter(operation))
           [] OTHER -> <<>>

(***************************************************************************)
(* VerilogBuilderOrchestrator as an object: one orchestrator serves every  *)
(* call of a build and keeps the generator of each field type it created   *)
(***************************************************************************)
FieldTypes ==
    {"header", "state_machine_start", "state_machine_end", "rom", "rom_init", "counter",
     "reset_counter", "addr_check", "logic"}

\* the StringIO fields of the entry that the generator class of a field type holds
Buffers(field_type) ==
    CASE field_type \in {"rom", "rom_init"} ->
            {"verilog_read_rom", "verilog_write_rom", "verilog_read_rom_init", "verilog_write_rom_init"}
      [] field_type \in {"counter", "reset_counter"} ->
            {"verilog_read_counter", "verilog_write_counter",
             "verilog_reset_read_counter", "verilog_reset_write_counter"}
      [] field_type = "addr_check" -> {"verilog_read_addr_check", "verilog_write_addr_check"}
      [] field_type = "logic" -> {"verilog_read_cases", "verilog_write_cases"}
      [] OTHER -> {"verilog_header", "verilog_state_machine_start", "verilog_state_machine_end"}

\* generator_classes[field_type](bar_number=bar_number): every StringIO of the entry empty
NewGenerator(field_type, bar_number) ==
    [bar_number |-> bar_number, entry |-> [name \in Buffers(field_type) |-> <<>>]]

\* VerilogBuilderOrchestrator(): no generator created yet
NewOrchestrator == [bar_number |-> 0, generator_instances |-> EmptyMap]

\* generate_rom_structure: both declaration buffers are truncated and written
generate_rom_structure(generator, reg, bar_number) ==
    [generator EXCEPT !.entry["verilog_read_rom"] = generate_roms(reg, bar_number, "R"),
                      !.entry["verilog_write_rom"] = generate_roms(reg, bar_number, "W")]

\* generate_rom_init: both initialisation buffers are truncated and written
generate_rom_init(generator, reg, bar_number) ==
    [generator EXCEPT !.entry["verilog_read_rom_init"] = initialize_roms(reg, bar_number, "R"),
                      !.entry["verilog_write_rom_init"] = initialize_roms(reg, bar_number, "W")]

\* generate_verilog_counter: a direction without addresses returns early and leaves
\* its buffer as it was
generate_verilog_counter(generator, reg, bar_number) ==
    [generator EXCEPT
        !.entry["verilog_read_counter"] =
            IF OperationAddrs(reg, "R", bar_number) = <<>> THEN @ ELSE generate_counters(reg, bar_number, "R"),
        !.entry["verilog_write_counter"] =
            IF OperationAddrs(reg, "W", bar_number) = <<>> THEN @ ELSE generate_counters(reg, bar_number, "W")]

\* generate_reset_counter: likewise
generate_reset_counter(generator, reg, bar_number) ==
    [generator EXCEPT
        !.entry["verilog_reset_read_counter"] =
            IF OperationAddrs(reg, "R", bar_number) = <<>> THEN @ ELSE reset_counters(reg, bar_number, "R"),
        !.entry["verilog_reset_write_counter"] =
            IF OperationAddrs(reg, "W", bar_number) = <<>> THEN @ ELSE reset_counters(reg, bar_number, "W")]

\* generate_address_check_entry: both buffers are replaced
generate_address_check_entry(generator, reg, bar_number) ==
    [generator EXCEPT
        !.entry["verilog_read_addr_check"] = generate_address_check(reg, bar_number, "R"),
        !.entry["verilog_write_addr_check"] = generate_address_check(reg, bar_number, "W")]

\* generate_verilog_logic: a direction without addresses returns early and leaves its
\* buffer as it was
generate_verilog_logic(generator, reg, bar_number) ==
    [generator EXCEPT
        !.entry["verilog_read_cases"] =
            IF OperationAddrs(reg, "R", bar_number) = <<>> THEN @ ELSE generate_logic(reg, bar_number, "R"),
        !.entry["verilog_write_cases"] =
            IF OperationAddrs(reg, "W", bar_number) = <<>> THEN @ ELSE generate_logic(reg, bar_number, "W")]

\* the three methods of StaticCodeGenerator, each writing its own buffer
generate_static(generator, field_type) ==
    CASE field_type = "header" ->
            [generator EXCEPT !.entry["verilog_header"] = generate_module_header(generator.bar_number)]
      [] field_type = "state_machine_start" ->
            [generator EXCEPT !.entry["verilog_state_machine_start"] = generate_state_machine_start]
      [] field_type = "state_machine_end" ->
            [generator EXCEPT !.entry["verilog_state_machine_end"] = generate_state_machine_end]

\* the generator of a call, taken from the ones kept when there is one of its field type
get_generator_instance_kept(generator_instances, field_type, bar_number) ==
    IF field_type \in DOMAIN generator_instances THEN generator_instances[field_type]
    ELSE NewGenerator(field_type, bar_number)

\* _get_generator_instance: a new generator for every call
get_generator_instance(generator_instances, field_type, bar_number) == NewGenerator(field_type, bar_number)

\* the buffer whose text a handler returns
ReturnedBuffer(field_type, operation) ==
    LET read == operation = "read" IN
    CASE field_type = "rom"           -> IF read THEN "verilog_read_rom" ELSE "verilog_write_rom"
      [] field_type = "rom_init"      -> IF read THEN "verilog_read_rom_init" ELSE "verilog_write_rom_init"
      [] field_type = "counter"       -> IF read THEN "verilog_read_counter" ELSE "verilog_write_counter"
      [] field_type = "reset_counter" -> IF read THEN "verilog_reset_read_counter" ELSE "verilog_reset_write_counter"
      [] field_type = "addr_check"    -> IF read THEN "verilog_read_addr_check" ELSE "verilog_write_addr_check"
      [] field_type = "logic"         -> IF read THEN "verilog_read_cases" ELSE "verilog_write_cases"
      [] field_type = "header"              -> "verilog_header"
      [] field_type = "state_machine_start" -> "verilog_state_machine_start"
      [] field_type = "state_machine_end"   -> "verilog_state_machine_end"

\* the generator after the handler of its field type has run
Handled(generator, reg, bar_number, field_type) ==
    CASE field_type = "rom"           -> generate_rom_structure(generator, reg, bar_number)
      [] field_type = "rom_init"      -> generate_rom_init(generator, reg, bar_number)
      [] field_type = "counter"       -> generate_verilog_counter(generator, reg, bar_number)
      [] field_type = "reset_counter" -> generate_reset_counter(generator, reg, bar_number)
      [] field_type = "addr_check"    -> generate_address_check_entry(generator, reg, bar_number)
      [] field_type = "logic"         -> generate_verilog_logic(generator, reg, bar_number)
      [] OTHER                        -> generate_static(generator, field_type)

\* _get_rom_entry and _get_counter_entry, called by _handle_logic: the generators kept
\* under "rom" and "counter" are run again for the BAR of the call
RefreshedForLogic(generator_instances, reg, bar_number) ==
    [k \in DOMAIN generator_instances |->
        IF k = "rom" THEN generate_rom_structure(generator_instances[k], reg, bar_number)
        ELSE IF k = "counter" THEN generate_verilog_counter(generator_instances[k], reg, bar_number)
        ELSE generator_instances[k]]

\* VerilogBuilderOrchestrator.build_verilog on the orchestrator object: the text it
\* returns and the orchestrator it leaves behind
orchestrator_build_verilog(orch, reg, operation, bar_number, field_type) ==
    LET kept == [k \in DOMAIN orch.generator_instances |->
                    [orch.generator_instances[k] EXCEPT !.bar_number = bar_number]]
    IN  IF ~validate_verilog_data(reg, bar_number)
        THEN [text |-> <<>>, orch |-> [bar_number |-> bar_number, generator_instances |-> kept]]
        ELSE LET generator == Handled(get_generator_instance(kept, field_type, bar_number),
                                      reg, bar_number, field_type)
                 stored    == [k \in DOMAIN kept \cup {field_type} |->
                                  IF k = field_type THEN generator ELSE kept[k]]
             IN  [text |-> generator.entry[ReturnedBuffer(field_type, operation)],
                  orch |-> [bar_number |-> bar_number,
                            generator_instances |->
                                IF field_type = "logic" THEN RefreshedForLogic(stored, reg, bar_number)
                                ELSE stored]]

append_code_block(lines, code) == IF ~IsBlankText(code) THEN lines \o <<code, <<>>>> ELSE lines

\* _generate_rom_structures and its five siblings: the read block, then the write block
generate_structures(reg, bar_number, generate_read, generate_write, field_type) ==
    LET after_read == IF generate_read
                      THEN append_code_block(<<>>, builder_build_verilog(reg, "read", bar_number, field_type))
                      ELSE <<>>
    IN  IF generate_write
        THEN append_code_block(after_read, builder_build_verilog(reg, "write", bar_number, field_type))
        ELSE after_read

\* the same function with the two field types exchanged
generate_state_machine_structures_exchanged(reg, bar_number, field_type) ==
    IF field_type = "state_machine_start"
    THEN <<builder_build_verilog(reg, "none", bar_number, "state_machine_end"), <<>>>>
    ELSE IF field_type = "state_machine_end"
    THEN <<builder_build_verilog(reg, "none", bar_number, "state_machine_start"), <<>>>>
    ELSE <<>>

generate_state_machine_structures(reg, bar_number, field_type) ==
    IF field_type \in {"state_machine_start", "state_machine_end"}
    THEN <<builder_build_verilog(reg, "none", bar_number, field_type), <<>>>>
    ELSE <<>>

ProcessedBars(processed) == [i \in 1..Len(processed) |-> processed[i].bar]

generate_headers(reg, bar_number, processed) ==
    IF bar_number \notin Range(ProcessedBars(processed)) THEN <<>>
    ELSE <<builder_build_verilog(reg, "read", bar_number, "header"), <<>>>>

get_operation_flags(operation_filter) ==
    <<operation_filter \in {"R", "B"}, operation_filter \in {"W", "B"}>>

\* the same function with the counter resets switched by include_state_machines
generate_bar_structures_reset_with_state_machine(reg, bar_number, processed, cli_options, generate_read, generate_write) ==
    IF bar_number \notin Range(ProcessedBars(processed)) THEN <<>>
    ELSE generate_structures(reg, bar_number, generate_read, generate_write, "rom")
         \o (IF cli_options.include_counters
             THEN generate_structures(reg, bar_number, generate_read, generate_write, "counter") ELSE <<>>)
         \o (IF cli_options.include_address_checks
             THEN generate_structures(reg, bar_number, generate_read, generate_write, "addr_check") ELSE <<>>)
         \o (IF cli_options.include_state_machines
             THEN generate_state_machine_structures(reg, bar_number, "state_machine_start") ELSE <<>>)
         \o (IF cli_options.include_state_machines
             THEN generate_structures(reg, bar_number, generate_read, generate_write, "reset_counter") ELSE <<>>)
         \o (IF cli_options.init_roms
             THEN generate_structures(reg, bar_number, generate_read, generate_write, "rom_init") ELSE <<>>)
         \o (IF cli_options.include_state_machines
             THEN generate_state_machine_structures(reg, bar_number, "state_machine_end") ELSE <<>>)
         \o (IF cli_options.include_logic
             THEN generate_structures(reg, bar_number, generate_read, generate_write, "logic") ELSE <<>>)

generate_bar_structures(reg, bar_number, processed, cli_options, generate_read, generate_write) ==
    IF bar_number \notin Range(ProcessedBars(processed)) THEN <<>>
    ELSE generate_structures(reg, bar_number, generate_read, generate_write, "rom")
         \o (IF cli_options.include_counters
             THEN generate_structures(reg, bar_number, generate_read, generate_write, "counter") ELSE <<>>)
         \o (IF cli_options.include_address_checks
             THEN generate_structures(reg, bar_number, generate_read, generate_write, "addr_check") ELSE <<>>)
         \o (IF cli_options.include_state_machines
             THEN generate_state_machine_structures(reg, bar_number, "state_machine_start") ELSE <<>>)
         \o (IF cli_options.include_counters
             THEN generate_structures(reg, bar_number, generate_read, generate_write, "reset_counter") ELSE <<>>)
         \o (IF cli_options.init_roms
             THEN generate_structures(reg, bar_number, generate_read, generate_write, "rom_init") ELSE <<>>)
         \o (IF cli_options.include_state_machines
             THEN generate_state_machine_structures(reg, bar_number, "state_machine_end") ELSE <<>>)
         \o (IF cli_options.include_logic
             THEN generate_structures(reg, bar_number, generate_read, generate_write, "logic") ELSE <<>>)

RECURSIVE RStripBlank(_)
RStripBlank(lines) ==
    IF lines # <<>> /\ IsBlankText(lines[Len(lines)])
    THEN RStripBlank(SubSeq(lines, 1, Len(lines) - 1)) ELSE lines

EndModule == << <<"endmodule">> >>

\* the module of one selected BAR, as the entries added to lines
BarModule(reg, bar_number, processed, cli_options) ==
    LET flags == get_operation_flags(cli_options.operation_filter)
        bar_lines == generate_headers(reg, bar_number, processed)
                     \o generate_bar_structures(reg, bar_number, processed, cli_options, flags[1], flags[2])
    IN  IF bar_number \notin Range(ProcessedBars(processed)) THEN <<>>
        ELSE IF bar_lines # <<>> THEN Append(RStripBlank(bar_lines), EndModule) ELSE <<>>

get_first_bar_entry(processed) == \E i \in 1..Len(processed) : processed[i].entries # <<>>

NonBlank(text) == ~IsBlankText(text)

\* ModularOrchestrator.build_verilog
build_verilog(reg, processed, cli_options) ==
    IF ~get_first_bar_entry(processed) THEN <<>>
    ELSE LET bar_numbers == IF cli_options.bar_selection # <<>> THEN cli_options.bar_selection
                            ELSE ProcessedBars(processed)
             lines == Flatten([i \in 1..Len(bar_numbers) |-> BarModule(reg, bar_numbers[i], processed, cli_options)])
         IN  Flatten(SelectSeq(lines, NonBlank))

\* processed_data[bar].append(verilog_data), the key created on first use
AddProcessed(processed, instance) ==
    IF instance.bar \in Range(ProcessedBars(processed))
    THEN [i \in 1..Len(processed) |->
             IF processed[i].bar = instance.bar
             THEN [processed[i] EXCEPT !.entries = Append(@, instance)] ELSE processed[i]]
    ELSE Append(processed, [bar |-> instance.bar, entries |-> <<instance>>])

(***************************************************************************)
(* Inputs: trace lines, trace texts, feature flags                         *)
(***************************************************************************)
\* the longest trace text of a conversion run
MaxLines == 4

\* the longest trace text of a run that follows another in the same process
MaxRunLines == 2

\* the number of runs in one process
MaxRuns == 2

TraceLine(dir, counter, timestamp, bar, addr, value) ==
    [lead |-> FALSE, parts |-> <<dir, counter, timestamp, bar, addr, value, <<"0","x","0">>, <<"0">>>>]

BlankLine == [lead |-> TRUE, parts |-> <<>>]

\* R 1 100.000001 0 0xf7000100 0x5 0x0 0
ReadA == TraceLine(<<"R">>, <<"1">>, <<"1","0","0",".","0","0","0","0","0","1">>, <<"0">>,
                   <<"0","x","f","7","0","0","0","1","0","0">>, <<"0","x","5">>)

\* R 2 100.000002 0 0xf7000101 0x9 0x0 0: the next byte of the same register
ReadB == TraceLine(<<"R">>, <<"2">>, <<"1","0","0",".","0","0","0","0","0","2">>, <<"0">>,
                   <<"0","x","f","7","0","0","0","1","0","1">>, <<"0","x","9">>)

\* R 3 100.000003 1 0x100 0x0 0x0 0: the same register offset in BAR 1, value zero
ReadC == TraceLine(<<"R">>, <<"3">>, <<"1","0","0",".","0","0","0","0","0","3">>, <<"1">>,
                   <<"0","x","1","0","0">>, <<"0","x","0">>)

\* W 4 298.823649 0 0xf70003fc 0x7a 0x0 0
WriteD == TraceLine(<<"W">>, <<"4">>, <<"2","9","8",".","8","2","3","6","4","9">>, <<"0">>,
                    <<"0","x","f","7","0","0","0","3","f","c">>, <<"0","x","7","a">>)

\* R 6 100.000006 10 0x100 0x1 0x0 0: a BAR out of range
ReadBar10 == TraceLine(<<"R">>, <<"6">>, <<"1","0","0",".","0","0","0","0","0","6">>, <<"1","0">>,
                       <<"0","x","1","0","0">>, <<"0","x","1">>)

\* R 8 100.000008 0 0x1a00100 0x3 0x0 0: register 00100 again, under other high bits
ReadAlias == TraceLine(<<"R">>, <<"8">>, <<"1","0","0",".","0","0","0","0","0","8">>, <<"0">>,
                       <<"0","x","1","a","0","0","1","0","0">>, <<"0","x","3">>)

\* R 2 100.000002 0 0xf7000100 0x9 0x0 0: the byte ReadA reads, read again
ReadA9 == TraceLine(<<"R">>, <<"2">>, <<"1","0","0",".","0","0","0","0","0","2">>, <<"0">>,
                    <<"0","x","f","7","0","0","0","1","0","0">>, <<"0","x","9">>)

TraceLines == {ReadA, ReadB, ReadC, WriteD, ReadBar10}

SeqsUpTo(S, n) == UNION {[1..k -> S] : k \in 0..n}

\* every text of at most MaxLines trace lines, and the whitespace-only texts
TraceContents == SeqsUpTo(TraceLines, MaxLines) \cup {<<BlankLine>>, <<BlankLine, BlankLine>>}

\* CLIOptions(): every structure, both operations, every BAR
DefaultOptions ==
    [bar_selection |-> <<>>, operation_filter |-> "B", include_address_checks |-> TRUE,
     include_counters |-> TRUE, include_logic |-> TRUE, include_state_machines |-> TRUE,
     init_roms |-> TRUE]

BuildOptions ==
    {DefaultOptions,
     [DefaultOptions EXCEPT !.bar_selection = <<1, 0>>, !.operation_filter = "R",
                            !.include_counters = FALSE, !.include_state_machines = FALSE],
     [DefaultOptions EXCEPT !.bar_selection = <<0>>, !.operation_filter = "W",
                            !.include_address_checks = FALSE, !.include_logic = FALSE,
                            !.init_roms = FALSE]}

NotCalled == [raised |-> "", data |-> <<>>]

(***************************************************************************)
(* ModularOrchestrator.run: input, build, output                           *)
(***************************************************************************)
Init ==
    /\ pc = "idle"
    /\ content = <<>>
    /\ parsed_results = <<>>
    /\ next_entry = 1
    /\ processed_data = <<>>
    /\ all_instances = <<>>
    /\ address_bit_widths = EmptyMap
    /\ default_values = EmptyMap
    /\ options = DefaultOptions
    /\ verilog_code = <<>>
    /\ sink = <<>>
    /\ history = <<>>
    /\ parse_out = NotCalled
    /\ align_in = <<>>
    /\ align_out = <<>>
    /\ verilog_orch = NewOrchestrator
    /\ returned = <<>>

\* execute() reads the file, whose text is one of Contents, and parses its content
ExecuteOf(Contents) ==
    /\ pc = "idle"
    /\ \E text \in Contents :
          /\ history # <<>> => Len(text) <= MaxRunLines
          /\ content' = text
          /\ LET r == parse_content(text) IN
             IF r.raised # ""
             THEN pc' = "failed" /\ UNCHANGED parsed_results
             ELSE pc' = "ingest" /\ parsed_results' = r.data
    /\ next_entry' = 1
    /\ processed_data' = <<>>
    /\ UNCHANGED <<all_instances, address_bit_widths, default_values, options, verilog_code,
                   sink, history, parse_out, align_in, align_out>>
    /\ UNCHANGED <<verilog_orch, returned>>

Execute == ExecuteOf(TraceContents)

\* read_file() raises for a missing path or file: run() ends with the exception
InputFails ==
    /\ pc = "idle"
    /\ pc' = "failed"
    /\ UNCHANGED <<content, parsed_results, next_entry, processed_data, all_instances,
                   address_bit_widths, default_values, options, verilog_code, sink,
                   history, parse_out, align_in, align_out>>
    /\ UNCHANGED <<verilog_orch, returned>>

\* one iteration of execute()'s loop: from_dict, then the append to processed_data
FromDict ==
    /\ pc = "ingest"
    /\ next_entry <= Len(parsed_results)
    /\ LET r == from_dict(parsed_results[next_entry]) IN
       IF r.raised # ""
       THEN UNCHANGED <<processed_data, all_instances, address_bit_widths, default_values>>
       ELSE LET reg == Track(Registry, r.instance) IN
            /\ all_instances' = reg.all_instances
            /\ address_bit_widths' = reg.address_bit_widths
            /\ default_values' = reg.default_values
            /\ processed_data' = AddProcessed(processed_data, r.instance)
    /\ next_entry' = next_entry + 1
    /\ UNCHANGED <<pc, content, parsed_results, options, verilog_code, sink, history,
                   parse_out, align_in, align_out>>
    /\ UNCHANGED <<verilog_orch, returned>>

\* build(bar_data, options): verilog_code = build_verilog(bar_data, options), with the
\* options run() was given, one of OptionSets
BuildWith(OptionSets) ==
    /\ pc = "ingest"
    /\ next_entry > Len(parsed_results)
    /\ \E cli_options \in OptionSets :
          /\ options' = cli_options
          /\ verilog_code' = build_verilog(Registry, processed_data, cli_options)
    /\ pc' = "built"
    /\ UNCHANGED <<content, parsed_results, next_entry, processed_data, all_instances,
                   address_bit_widths, default_values, sink, history,
                   parse_out, align_in, align_out>>
    /\ UNCHANGED <<verilog_orch, returned>>

Build == BuildWith(BuildOptions)

\* output() without its test of verilog_code: whatever was built is written
OutputUnguarded ==
    /\ pc = "built"
    /\ sink' = Append(sink, verilog_code)
    /\ pc' = "done"
    /\ UNCHANGED <<content, parsed_results, next_entry, processed_data, all_instances,
                   address_bit_widths, default_values, options, verilog_code, history,
                   parse_out, align_in, align_out>>
    /\ UNCHANGED <<verilog_orch, returned>>

\* output(): a non-empty text is handed to the output orchestrator
Output ==
    /\ pc = "built"
    /\ sink' = IF verilog_code # <<>> THEN Append(sink, verilog_code) ELSE sink
    /\ pc' = "done"
    /\ UNCHANGED <<content, parsed_results, next_entry, processed_data, all_instances,
                   address_bit_widths, default_values, options, verilog_code, history,
                   parse_out, align_in, align_out>>
    /\ UNCHANGED <<verilog_orch, returned>>

\* run() is called again in the same process: the class-level tracker is what it was
RunAgain ==
    /\ pc = "done"
    /\ Len(history) + 1 < MaxRuns
    /\ Len(content) <= MaxRunLines
    /\ history' = Append(history, [content |-> content, options |-> options, verilog_code |-> verilog_code])
    /\ pc' = "idle"
    /\ UNCHANGED <<content, parsed_results, next_entry, processed_data, all_instances,
                   address_bit_widths, default_values, options, verilog_code, sink,
                   parse_out, align_in, align_out>>
    /\ UNCHANGED <<verilog_orch, returned>>

Next == Execute \/ InputFails \/ FromDict \/ Build \/ Output

Spec == Init /\ [][Next]_vars

NextRuns == Execute \/ InputFails \/ FromDict \/ Build \/ Output \/ RunAgain

SpecRuns == Init /\ [][NextRuns]_vars

(***************************************************************************)
(* One run under every combination of the feature flags                    *)
(***************************************************************************)
\* the most distinct registers of a trace
MaxAddresses == 9

\* "R k 100.5 0 0x<4k in hex> 0x1 0x0 0", and the same line with W
AccessAt(dir, k) ==
    TraceLine(<<dir>>, <<"7">>, <<"1","0","0",".","5">>, <<"0">>,
              <<"0", "x", LowerHex[((4 * k) \div 16) + 1], LowerHex[((4 * k) % 16) + 1]>>, <<"0","x","1">>)

\* reads of n registers, highest address first, then writes to the lower half of them
AddressTrace(n) ==
    [i \in 1..n |-> AccessAt("R", n - i)] \o [i \in 1..(n \div 2) |-> AccessAt("W", i - 1)]

\* the addresses on one line of the address check
GroupSize == 8

\* traces of up to MaxAddresses registers, of two full lines and of one more, and
\* traces over two BARs
FlagContents ==
    {AddressTrace(n) : n \in 0..MaxAddresses}
    \cup {AddressTrace(2 * GroupSize), AddressTrace(2 * GroupSize + 1)}
    \cup {<<ReadA, ReadB, WriteD, ReadC>>, <<ReadC, WriteD, WriteD>>, <<ReadBar10>>, <<WriteD>>,
          <<ReadC, ReadBar10, ReadA>>, <<ReadC>>, <<ReadA, ReadA9>>, <<BlankLine>>}

\* every combination of the five flags, each operation filter, and three BAR selections:
\* "all", "1,0" and "2,0,0" as typed at the prompt
AllOptions ==
    {[bar_selection |-> sel, operation_filter |-> filter, include_address_checks |-> f[1],
      include_counters |-> f[2], include_logic |-> f[3], include_state_machines |-> f[4],
      init_roms |-> f[5]] :
        sel \in {<<>>, <<1, 0>>, <<2, 0, 0>>}, filter \in {"R", "W", "B"}, f \in [1..5 -> BOOLEAN]}

ExecuteFlags == ExecuteOf(FlagContents)

BuildFlags == BuildWith(AllOptions)

NextFlags == ExecuteFlags \/ FromDict \/ BuildFlags \/ Output

SpecFlags == Init /\ [][NextFlags]_vars

(***************************************************************************)
(* One run over registers at and above 0x10000                             *)
(***************************************************************************)
\* R 9 100.000009 0 0xf7010100 0x2 0x0 0: register 10100, above the 16-bit range
ReadHigh == TraceLine(<<"R">>, <<"9">>, <<"1","0","0",".","0","0","0","0","0","9">>, <<"0">>,
                      <<"0","x","f","7","0","1","0","1","0","0">>, <<"0","x","2">>)

\* W 5 298.9 0 0xf70203fc 0x7b 0x0 0: register 203FC
WriteHigh == TraceLine(<<"W">>, <<"5">>, <<"2","9","8",".","9">>, <<"0">>,
                       <<"0","x","f","7","0","2","0","3","f","c">>, <<"0","x","7","b">>)

\* registers below 0x10000 alone, above it alone, and both kinds with the same low 16 bits
HighContents ==
    {<<ReadA>>, <<ReadHigh>>, <<ReadA, ReadHigh>>, <<ReadHigh, ReadA, ReadHigh>>,
     <<WriteD, WriteHigh>>, <<ReadHigh, WriteHigh>>}

ExecuteHigh == ExecuteOf(HighContents)

NextHigh == ExecuteHigh \/ FromDict \/ BuildFlags \/ Output

SpecHigh == Init /\ [][NextHigh]_vars

(***************************************************************************)
(* align_address_and_value on its own                                      *)
(***************************************************************************)
\* the most hexadecimal digits of a raw value
MaxValueDigits == 3

AlignDigits == {"0", "7", "a", "F"}

HexPrefix == <<"0", "x">>

\* raw values of 28, 32 and 36 bits
WideValues ==
    {<<"1","2","3","4","5","6","7">>, <<"8","9","a","b","c","d","e","f">>,
     <<"1","2","3","4","5","6","7","8","9">>, <<"F","0","0","0","0","0","0","0","0">>}

AlignValues == {HexPrefix \o v : v \in (SeqsUpTo(AlignDigits, MaxValueDigits) \ {<<>>}) \cup WideValues}

LastChars == Range(LowerHex) \cup Range(UpperHex) \cup {"g"}

AddressStems == {<<>>, <<"1", "F">>, <<"f", "7", "0", "0", "0", "1", "0">>}

AlignAddresses == {HexPrefix \o stem \o <<d>> : stem \in AddressStems, d \in LastChars}

InitAlign ==
    /\ pc = "align"
    /\ align_in \in AlignAddresses \X AlignValues
    /\ align_out = <<>>
    /\ content = <<>>
    /\ parsed_results = <<>>
    /\ next_entry = 1
    /\ processed_data = <<>>
    /\ all_instances = <<>>
    /\ address_bit_widths = EmptyMap
    /\ default_values = EmptyMap
    /\ options = DefaultOptions
    /\ verilog_code = <<>>
    /\ sink = <<>>
    /\ history = <<>>
    /\ parse_out = NotCalled
    /\ verilog_orch = NewOrchestrator
    /\ returned = <<>>

Align ==
    /\ pc = "align"
    /\ align_out' = align_address_and_value(align_in[1], align_in[2])
    /\ pc' = "aligned"
    /\ UNCHANGED <<content, parsed_results, next_entry, processed_data, all_instances,
                   address_bit_widths, default_values, options, verilog_code, sink,
                   history, parse_out, align_in>>
    /\ UNCHANGED <<verilog_orch, returned>>

SpecAlign == InitAlign /\ [][Align]_vars

(***************************************************************************)
(* parse_content on its own                                                *)
(***************************************************************************)
\* the most lines of a text handed to parse_content
MaxParseLines == 2

WithParts(parts) == [lead |-> FALSE, parts |-> parts]

WithField(line, k, field) == [line EXCEPT !.parts[k] = field]

ParseLines ==
    {ReadA, WriteD, BlankLine,
     [ReadA EXCEPT !.lead = TRUE],                               \* " R 1 ..."
     WithParts(<< <<"#">>, <<"t", "r", "a", "c", "e">> >>),      \* "# trace"
     WithParts(<< <<"R">> >>),                                   \* "R"
     WithParts(SubSeq(ReadA.parts, 1, 7)),                       \* seven fields
     WithParts(Append(WriteD.parts, <<"0">>)),                   \* nine fields
     WithField(ReadA, 1, <<"R", "E", "A", "D">>),                \* "READ 1 ..."
     WithField(ReadA, 5, <<"f", "7", "0", "0">>),                \* address without 0x
     WithField(WriteD, 5, <<"0", "x", "g", "1">>),               \* address 0xg1
     WithField(ReadA, 5, <<"0", "x">>),                          \* address 0x
     WithField(WriteD, 6, <<"7", "a">>),                         \* value without 0x
     WithField(ReadA, 6, <<"0", "x">>),                          \* value 0x
     WithField(ReadA, 4, <<"x">>),                               \* BAR x
     WithField(WriteD, 2, <<"z">>),                              \* counter z
     WithField(ReadA, 3, <<"1", ".", "2", ".", "3">>)}           \* timestamp 1.2.3

ParseContents == SeqsUpTo(ParseLines, MaxParseLines)

InitParse ==
    /\ pc = "parse"
    /\ content \in ParseContents
    /\ parse_out = NotCalled
    /\ parsed_results = <<>>
    /\ next_entry = 1
    /\ processed_data = <<>>
    /\ all_instances = <<>>
    /\ address_bit_widths = EmptyMap
    /\ default_values = EmptyMap
    /\ options = DefaultOptions
    /\ verilog_code = <<>>
    /\ sink = <<>>
    /\ history = <<>>
    /\ align_in = <<>>
    /\ align_out = <<>>
    /\ verilog_orch = NewOrchestrator
    /\ returned = <<>>

ParseContent ==
    /\ pc = "parse"
    /\ parse_out' = parse_content(content)
    /\ pc' = "parsed"
    /\ UNCHANGED <<content, parsed_results, next_entry, processed_data, all_instances,
                   address_bit_widths, default_values, options, verilog_code, sink,
                   history, align_in, align_out>>
    /\ UNCHANGED <<verilog_orch, returned>>

SpecParse == InitParse /\ [][ParseContent]_vars

(***************************************************************************)
(* The loop of execute() on its own: from_dict over a list of entries      *)
(***************************************************************************)
\* the most entries handed to the loop
MaxEntries == 3

\* the dictionary parse_content returns for one line
EntryOf(line) == parse_content(<<line>>).data[1]

\* entries as parse_content returns them, and entries of a wrong direction, of a BAR
\* out of range and of a negative timestamp
Entries ==
    {EntryOf(ReadA), EntryOf(ReadC), EntryOf(WriteD), EntryOf(ReadAlias),
     [EntryOf(ReadA) EXCEPT !.operation = "X"],
     [EntryOf(ReadB) EXCEPT !.bar = 10],
     [EntryOf(WriteD) EXCEPT !.bar = -1],
     [EntryOf(ReadC) EXCEPT !.timestamp.neg = TRUE]}

InitIngest ==
    /\ pc = "ingest"
    /\ parsed_results \in SeqsUpTo(Entries, MaxEntries)
    /\ content = <<>>
    /\ next_entry = 1
    /\ processed_data = <<>>
    /\ all_instances = <<>>
    /\ address_bit_widths = EmptyMap
    /\ default_values = EmptyMap
    /\ options = DefaultOptions
    /\ verilog_code = <<>>
    /\ sink = <<>>
    /\ history = <<>>
    /\ parse_out = NotCalled
    /\ align_in = <<>>
    /\ align_out = <<>>
    /\ verilog_orch = NewOrchestrator
    /\ returned = <<>>

SpecIngest == InitIngest /\ [][FromDict]_vars

(***************************************************************************)
(* The calls of verilog_orch.build_verilog on their own: any calls, in any *)
(* order, on the one orchestrator of a run whose input step has finished   *)
(***************************************************************************)
\* the most calls made on the orchestrator
MaxCalls == 2

\* the BARs of the calls: BAR 2 is in no trace
CallBars == {0, 1, 2}

\* BAR 1 read and BAR 0 written; both BARs read, BAR 0 written as well
CallContents == {<<ReadC, WriteD>>, <<ReadA, ReadB, WriteD, ReadC>>}

\* execute()'s dict after the loop over the instances
RECURSIVE ProcessedOf(_)
ProcessedOf(instances) ==
    IF instances = <<>> THEN <<>>
    ELSE AddProcessed(ProcessedOf(SubSeq(instances, 1, Len(instances) - 1)), instances[Len(instances)])

InitCalls ==
    /\ pc = "calls"
    /\ content \in CallContents
    /\ parsed_results = parse_content(content).data
    /\ next_entry = Len(parsed_results) + 1
    /\ all_instances = FreshRegistry(content).all_instances
    /\ address_bit_widths = FreshRegistry(content).address_bit_widths
    /\ default_values = FreshRegistry(content).default_values
    /\ processed_data = ProcessedOf(all_instances)
    /\ options = DefaultOptions
    /\ verilog_code = <<>>
    /\ sink = <<>>
    /\ history = <<>>
    /\ parse_out = NotCalled
    /\ align_in = <<>>
    /\ align_out = <<>>
    /\ verilog_orch = NewOrchestrator
    /\ returned = <<>>

\* one call verilog_orch.build_verilog(operation, bar_number, field_type)
BuildVerilogCall ==
    /\ pc = "calls"
    /\ Len(returned) < MaxCalls
    /\ \E operation \in {"read", "write"}, bar_number \in CallBars, field_type \in FieldTypes :
          LET r == orchestrator_build_verilog(verilog_orch, Registry, operation, bar_number, field_type)
          IN  /\ verilog_orch' = r.orch
              /\ returned' = Append(returned, [operation |-> operation, bar_number |-> bar_number,
                                               field_type |-> field_type, text |-> r.text])
    /\ UNCHANGED <<pc, content, parsed_results, next_entry, processed_data, all_instances,
                   address_bit_widths, default_values, options, verilog_code, sink,
                   history, parse_out, align_in, align_out>>

SpecCalls == InitCalls /\ [][BuildVerilogCall]_vars

(***************************************************************************)
(* Properties of the aligner                                               *)
(***************************************************************************)
\* digit k, counted from the least significant one, of the digits after 0x
NibbleOf(digits, k) == IF k < Len(digits) THEN Lower(digits[Len(digits) - k]) ELSE "0"

\* the 32-bit word holding value in byte lane `lane`, by digit positions
LaneWord(value, lane) ==
    [i \in 1..8 |-> IF 8 - i >= 2 * lane THEN NibbleOf(DropFirst(value, 2), 8 - i - 2 * lane) ELSE "0"]

\* the raw address without 0x, its last digit replaced by the base digit of its group
BaseAddress(addr) ==
    LET raw == DropFirst(addr, 2)
        d   == HexVal(raw[Len(raw)])
    IN  [i \in 1..Len(raw) |-> IF i = Len(raw) THEN LowerHex[(d \div 4) * 4 + 1] ELSE raw[i]]

\* C1: for every final hexadecimal digit d of a raw address, in either case, aligning
\* a value at that address yields the address with its last digit replaced by the base
\* digit of d's group (0, 4, 8 or c) and the value shifted left by (d mod 4)*8 bits,
\* masked to 32 bits.
C1_ByteLaneAlignment ==
    (pc = "aligned" /\ IsHexChar(align_in[1][Len(align_in[1])])) =>
        LET d == HexVal(align_in[1][Len(align_in[1])])
        IN  /\ align_out[1] = BaseAddress(align_in[1])
            /\ [i \in 1..Len(align_out[2]) |-> Lower(align_out[2][i])] = LaneWord(align_in[2], d % 4)

\* an upper-case final digit F and a value whose top digit is shifted out of the word
C1_Witness ==
    /\ pc = "aligned"
    /\ align_in = << <<"0", "x", "1", "F", "F">>, <<"0", "x", "F", "7", "a">> >>
    /\ align_out = << <<"1", "F", "c">>, <<"7", "a", "0", "0", "0", "0", "0", "0">> >>

(***************************************************************************)
(* Properties of the parser                                                *)
(***************************************************************************)
\* 0x followed by hexadecimal digits
IsPrefixedHex(field) ==
    /\ Len(field) >= 3
    /\ field[1] = "0" /\ field[2] = "x"
    /\ \A i \in 3..Len(field) : IsHexChar(field[i])

\* a line of the trace format: R or W in the first column, eight fields, a counter, a
\* timestamp, a BAR, an address and a value
WellFormed(line) ==
    /\ ~line.lead
    /\ Len(line.parts) = 8
    /\ line.parts[1][1] \in {"R", "W"}
    /\ IsDecInt(line.parts[2])
    /\ IsFloat(line.parts[3])
    /\ IsDecInt(line.parts[4])
    /\ IsPrefixedHex(line.parts[5])
    /\ IsPrefixedHex(line.parts[6])

\* the record of a well-formed line: its fields, the address and value aligned
RecordOf(line) ==
    [operation |-> line.parts[1][1],
     counter   |-> DecInt(line.parts[2]),
     timestamp |-> Float(line.parts[3]),
     bar       |-> DecInt(line.parts[4]),
     address   |-> BaseAddress(line.parts[5]),
     value     |-> LaneWord(line.parts[6], HexVal(line.parts[5][Len(line.parts[5])]) % 4)]

LowerRecord(rec) == [rec EXCEPT !.value = [i \in 1..Len(rec.value) |-> Lower(rec.value[i])]]

RecordsOf(text) ==
    LET lines == SelectSeq(text, WellFormed)
    IN  [i \in 1..Len(lines) |-> RecordOf(lines[i])]

\* C9: parse_content returns exactly the records of the well-formed R/W lines, in
\* order; a line not starting with R or W, a line without exactly 8 fields and a line
\* whose address or value is not 0x-prefixed hex give no record and stop no later line.
C9_LineIndependentParsing ==
    pc = "parsed" =>
        /\ parse_out.raised = ""
        /\ [i \in 1..Len(parse_out.data) |-> LowerRecord(parse_out.data[i])] = RecordsOf(content)

\* a seven-field line followed by a valid line: the valid line alone is returned
C9_Witness ==
    /\ pc = "parsed"
    /\ content = <<WithParts(SubSeq(ReadA.parts, 1, 7)), WriteD>>
    /\ Len(parse_out.data) = 1
    /\ parse_out.data[1].operation = "W"
    /\ parse_out.data[1].address = <<"f", "7", "0", "0", "0", "3", "f", "c">>
    /\ parse_out.data[1].value = <<"0", "0", "0", "0", "0", "0", "7", "A">>

(***************************************************************************)
(* Properties of the registry and of the generated text                    *)
(***************************************************************************)
Bars == 0..9

Operations == {"R", "W"}

Upper(c) ==
    IF \E i \in 1..16 : LowerHex[i] = c
    THEN UpperHex[CHOOSE i \in 1..16 : LowerHex[i] = c]
    ELSE c

\* the last 5 digits of an aligned address, upper case, zero-padded
Register(address) ==
    LET padded == <<"0", "0", "0", "0", "0">> \o address
    IN  [i \in 1..5 |-> Upper(padded[Len(padded) - 5 + i])]

\* the operations a trace text holds, in trace order: the records of its well-formed
\* lines whose BAR is in range, with the register address and the 32-bit word
Observations(text) ==
    LET InRange(rec) == rec.bar \in Bars /\ ~rec.timestamp.neg
        recs == SelectSeq(RecordsOf(text), InRange)
    IN  [i \in 1..Len(recs) |->
            [operation |-> recs[i].operation, bar |-> recs[i].bar,
             address |-> Register(recs[i].address),
             value |-> [k \in 1..8 |-> Upper(recs[i].value[k])]]]

\* the values of the occurrences of (bar, address, operation) in ops, in order
Occurrences(ops, bar, address, operation) ==
    LET Test(d) == d.bar = bar /\ d.address = address /\ d.operation = operation
        sel == SelectSeq(ops, Test)
    IN  [i \in 1..Len(sel) |-> sel[i].value]

ObservedAddresses(ops) == {ops[i].address : i \in 1..Len(ops)}

HasModule(code, bar) == \E i \in 1..Len(code) : code[i][1] = "module" /\ code[i][2] = bar

\* the lines of the first module emitted for bar, header to endmodule
ModuleOf(code, bar) ==
    LET first == CHOOSE i \in 1..Len(code) :
                    /\ code[i][1] = "module" /\ code[i][2] = bar
                    /\ \A j \in 1..(i - 1) : ~(code[j][1] = "module" /\ code[j][2] = bar)
        last  == CHOOSE j \in first..Len(code) :
                    /\ code[j][1] = "endmodule"
                    /\ \A k \in first..(j - 1) : code[k][1] # "endmodule"
    IN  SubSeq(code, first, last)

\* the lines of one kind emitted for an operation and address
LinesOf(text, tag, operation, address) ==
    LET Test(l) == l[1] = tag /\ l[2] = operation /\ l[3] = address
    IN  SelectSeq(text, Test)

OperationEnabled(operation) == options.operation_filter \in {operation, "B"}

BuildDone == pc \in {"built", "done"}

\* C2: for every BAR, direction and address A, the ROM initialisation assignments
\* emitted for A carry the indices 0, 1, 2, ... and the value at index i is the value
\* of the (i+1)-th occurrence of (BAR, A, direction) in the trace, duplicates included,
\* whatever records lie between the occurrences.
C2_RomInitOrder ==
    BuildDone =>
        LET trace == Observations(content) IN
        \A bar \in Bars, operation \in Operations, address \in ObservedAddresses(trace) :
            (HasModule(verilog_code, bar) /\ options.init_roms /\ OperationEnabled(operation)) =>
                LET occ   == Occurrences(trace, bar, address, operation)
                    inits == LinesOf(ModuleOf(verilog_code, bar), "rom_init", operation, address)
                IN  [i \in 1..Len(inits) |-> <<inits[i][4], inits[i][5]>>]
                    = [i \in 1..Len(occ) |-> <<i - 1, occ[i]>>]

\* register 00100 of BAR 0 read three times, a write in between, the first value again last
C2_Witness ==
    /\ pc = "done"
    /\ content = <<ReadB, WriteD, ReadA, ReadB>>
    /\ options = DefaultOptions
    /\ LinesOf(ModuleOf(verilog_code, 0), "rom_init", "R", <<"0", "0", "1", "0", "0">>)
         = << <<"rom_init", "R", <<"0", "0", "1", "0", "0">>, 0, <<"0", "0", "0", "0", "0", "9", "0", "0">> >>,
              <<"rom_init", "R", <<"0", "0", "1", "0", "0">>, 1, <<"0", "0", "0", "0", "0", "0", "0", "5">> >>,
              <<"rom_init", "R", <<"0", "0", "1", "0", "0">>, 2, <<"0", "0", "0", "0", "0", "9", "0", "0">> >> >>

\* the value of the first operation of a direction ingested for a BAR, else 00000000
FirstValue(ops, bar, operation) ==
    LET Test(d) == d.bar = bar /\ d.operation = operation
        sel == SelectSeq(ops, Test)
    IN  IF sel = <<>> THEN ZeroWord ELSE sel[1].value

\* C3: after ingesting any sequence of operations the default read (write) value of a
\* BAR is the value of the first R (W) operation ingested for that BAR; later operations
\* never overwrite it; with no operation of that direction it is 00000000.
C3_FirstValueIsDefault ==
    \A bar \in Bars :
        get_default_values(Registry, bar)
            = <<FirstValue(all_instances, bar, "R"), FirstValue(all_instances, bar, "W")>>

\* the largest bit length among the values ingested at an address, the least width being floor
MaxBitLength(ops, address, floor) ==
    LET lengths == {BitLength(HexInt(ops[i].value)) : i \in {k \in 1..Len(ops) : ops[k].address = address}}
    IN  CHOOSE m \in lengths \cup {floor} : \A n \in lengths \cup {floor} : m >= n

WidthsAreMax(floor) ==
    /\ DOMAIN address_bit_widths = ObservedAddresses(all_instances)
    /\ \A address \in DOMAIN address_bit_widths :
          address_bit_widths[address] = MaxBitLength(all_instances, address, floor)

\* C4 as stated: the width recorded for an address is the largest bitLength(value) over
\* the values ingested at that address, bitLength(0) being 0, and a further record never
\* decreases a recorded width.
C4_BitWidthIsMaxBitLength == WidthsAreMax(0)

\* C4, amended: the width recorded for an address is the largest bitLength(value) over
\* the values ingested at that address and at least 1 (a value of zero is one bit wide),
\* and ingesting a further record never decreases the recorded width of any address.
C4_BitWidthIsFlooredMax ==
    /\ []WidthsAreMax(1)
    /\ [][\A address \in DOMAIN address_bit_widths :
             /\ address \in DOMAIN address_bit_widths'
             /\ address_bit_widths'[address] >= address_bit_widths[address]]_vars

\* 00000900 and then the smaller 00000005 ingested at register 00100: the width stays 12
C4_Witness ==
    /\ pc = "ingest"
    /\ content = <<ReadB, ReadA>>
    /\ next_entry = 3
    /\ address_bit_widths[<<"0", "0", "1", "0", "0">>] = 12

\* C5: for every BAR, direction and address observed k > 1 times, k counting only the
\* observations of that BAR, address and direction, the counter declared for the address
\* in the BAR's module has width bitLength(k).
C5_CounterWidthIsBitLength ==
    BuildDone =>
        \A bar \in Bars, operation \in Operations, address \in ObservedAddresses(Observations(content)) :
            (HasModule(verilog_code, bar)
                /\ Len(Occurrences(Observations(content), bar, address, operation)) > 1) =>
                LET k == Len(Occurrences(Observations(content), bar, address, operation))
                    counters == LinesOf(ModuleOf(verilog_code, bar), "counter", operation, address)
                IN  \A i \in 1..Len(counters) : counters[i][4] + 1 = NatBitLength(k)

\* C6: for an address observed exactly once for a BAR and direction, neither a counter
\* declaration nor a counter reset statement is emitted for that address.
C6_NoCounterForSingleValue ==
    BuildDone =>
        \A bar \in Bars, operation \in Operations, address \in ObservedAddresses(Observations(content)) :
            (HasModule(verilog_code, bar)
                /\ Len(Occurrences(Observations(content), bar, address, operation)) = 1) =>
                /\ LinesOf(ModuleOf(verilog_code, bar), "counter", operation, address) = <<>>
                /\ LinesOf(ModuleOf(verilog_code, bar), "counter_reset", operation, address) = <<>>

\* C7: running the pipeline twice on identical trace text with identical feature flags
\* yields identical generated output.
C7_SameInputSameOutput ==
    BuildDone =>
        \A i \in 1..Len(history) :
            (history[i].content = content /\ history[i].options = options) =>
                history[i].verilog_code = verilog_code

\* C8: the registry is reset between runs: after a run on T1 and then a run on T2 the
\* operation list, bit widths and defaults are exactly those of a fresh run on T2.
C8_RegistryOfThisRunOnly == BuildDone => Registry = FreshRegistry(content)

\* C10: when the trace text is empty or whitespace-only the run fails with an error
\* surfaced to the caller instead of returning a normal, empty result.
C10_EmptyInputFails == (pc # "idle" /\ IsBlankContent(content)) => pc = "failed"

(***************************************************************************)
(* Properties of the ingestion loop                                        *)
(***************************************************************************)
\* a timestamp below zero
Negative(ts) == ts.neg /\ \E i \in 1..Len(ts.whole \o ts.frac) : (ts.whole \o ts.frac)[i] # "0"

\* a record the registry has to reject
Rejected(entry) == entry.operation \notin {"R", "W"} \/ entry.bar \notin Bars \/ Negative(entry.timestamp)

Accepted(entry) == ~Rejected(entry)

\* direction, BAR and value of the records the loop has accepted so far
AcceptedSoFar ==
    LET sel == SelectSeq(SubSeq(parsed_results, 1, next_entry - 1), Accepted)
    IN  [i \in 1..Len(sel) |-> <<sel[i].operation, sel[i].bar, sel[i].value>>]

IsHexWord(s, n) == Len(s) = n /\ \A i \in 1..n : IsHexChar(s[i])

\* C12: every operation held in the registry has direction R or W, a BAR in [0,9], an
\* address of exactly 5 hexadecimal digits whose last digit is 0, 4, 8 or C, and a value
\* of exactly 8 hexadecimal digits.
C12_RegistryValidity ==
    \A i \in 1..Len(all_instances) :
        /\ all_instances[i].operation \in {"R", "W"}
        /\ all_instances[i].bar \in Bars
        /\ IsHexWord(all_instances[i].address, 5)
        /\ Lower(all_instances[i].address[5]) \in {"0", "4", "8", "c"}
        /\ IsHexWord(all_instances[i].value, 8)

\* a read of byte 1 of register f7000100 and a write to f70003fc are in the registry,
\* a read of BAR 10 between them is not
C12_Witness ==
    /\ pc = "ingest"
    /\ content = <<ReadB, ReadBar10, WriteD>>
    /\ next_entry = 4
    /\ Len(all_instances) = 2
    /\ all_instances[1].address = <<"0", "0", "1", "0", "0">>
    /\ all_instances[1].value = <<"0", "0", "0", "0", "0", "9", "0", "0">>
    /\ all_instances[2].address = <<"0", "0", "3", "F", "C">>

(***************************************************************************)
(* Properties of the module text                                           *)
(***************************************************************************)
\* the kinds of fragment in their order, and the lines each kind is made of
FragmentTags ==
    << {"module", "ports", "registers", "wire", "assign"},
       {"rom"},
       {"counter"},
       {"function", "input", "begin", "case", "labels", "check", "default_check", "endcase", "end", "endfunction"},
       {"always_ff_begin", "if_rst_begin", "rst_rsp_valid"},
       {"counter_reset"},
       {"rom_init"},
       {"end_else_begin", "latch_requests"},
       {"if_begin", "case", "arm_begin", "counter_step", "rom_access", "arm_single", "default", "endcase",
        "rsp_default", "end"},
       {"endmodule"} >>

\* the lines from..Len(lines) can be read as fragments in the fixed order, the line
\* before them belonging to fragment kind `kind`; an empty line may stand anywhere
RECURSIVE InFragmentOrder(_, _, _)
InFragmentOrder(lines, from, kind) ==
    IF from > Len(lines) THEN TRUE
    ELSE IF lines[from] = Blank THEN InFragmentOrder(lines, from + 1, kind)
    ELSE LET later == {k \in kind..Len(FragmentTags) : lines[from][1] \in FragmentTags[k]}
         IN  /\ later # {}
             /\ InFragmentOrder(lines, from + 1, CHOOSE k \in later : \A j \in later : k <= j)

CountTag(lines, tag) == Cardinality({i \in 1..Len(lines) : lines[i][1] = tag})

\* the module that starts at line first of the code: up to its terminator
ModuleAt(code, first) ==
    LET ends == {j \in first..Len(code) : code[j][1] = "endmodule"}
    IN  SubSeq(code, first, CHOOSE j \in ends : \A k \in ends : j <= k)

EnabledOperations == {operation \in Operations : OperationEnabled(operation)}

\* the (direction, address) pairs of a BAR's observations in the enabled directions
EnabledPairs(trace, bar) ==
    {<<trace[i].operation, trace[i].address>> :
        i \in {k \in 1..Len(trace) : trace[k].bar = bar /\ trace[k].operation \in EnabledOperations}}

EnabledDirections(trace, bar) == {pair[1] : pair \in EnabledPairs(trace, bar)}

OnOff(flag, n) == IF flag THEN n ELSE 0

\* C13: the output is a sequence of modules, each with one header, first, and one
\* terminator, last; in each module the enabled fragments, and no others, stand in the
\* order header, ROM declarations, counters, address check, state machine start,
\* counter resets, ROM initialisation, state machine end, logic; and every ROM,
\* counter, reset and initialisation line of a module names a register observed in
\* that module's BAR.
C13_BuildOrder ==
    BuildDone =>
        LET trace == Observations(content) IN
        /\ verilog_code # <<>> =>
              /\ verilog_code[1][1] = "module"
              /\ verilog_code[Len(verilog_code)][1] = "endmodule"
        /\ \A i \in 2..Len(verilog_code) :
              (verilog_code[i][1] = "module") <=> (verilog_code[i - 1][1] = "endmodule")
        /\ \A first \in {i \in 1..Len(verilog_code) : verilog_code[i][1] = "module"} :
              LET lines == ModuleAt(verilog_code, first)
                  bar   == verilog_code[first][2]
                  pairs == Cardinality(EnabledPairs(trace, bar))
                  dirs  == Cardinality(EnabledDirections(trace, bar))
              IN  /\ InFragmentOrder(lines, 1, 1)
                  /\ CountTag(lines, "module") = 1 /\ CountTag(lines, "endmodule") = 1
                  /\ CountTag(lines, "rom") = pairs
                  /\ CountTag(lines, "counter") = OnOff(options.include_counters, pairs)
                  /\ CountTag(lines, "function") = OnOff(options.include_address_checks, dirs)
                  /\ CountTag(lines, "always_ff_begin") = OnOff(options.include_state_machines, 1)
                  /\ CountTag(lines, "counter_reset") = OnOff(options.include_counters, pairs)
                  /\ (CountTag(lines, "rom_init") > 0) <=> (options.init_roms /\ pairs > 0)
                  /\ CountTag(lines, "end_else_begin") = OnOff(options.include_state_machines, 1)
                  /\ CountTag(lines, "if_begin") = OnOff(options.include_logic, dirs)
                  /\ \A k \in 1..Len(lines) :
                        lines[k][1] \in {"rom", "counter", "counter_reset", "rom_init"} =>
                            <<lines[k][2], lines[k][3]>> \in EnabledPairs(trace, bar)

\* every flag on, both directions, BARs 1 and 0 selected in that order: two modules,
\* BAR 1's first, BAR 0's with a read and a write fragment of each kind
C13_Witness ==
    /\ pc = "built"
    /\ content = <<ReadA, ReadB, WriteD, ReadC>>
    /\ options = [DefaultOptions EXCEPT !.bar_selection = <<1, 0>>]
    /\ CountTag(verilog_code, "module") = 2
    /\ verilog_code[1] = <<"module", 1>>
    /\ CountTag(ModuleOf(verilog_code, 0), "if_begin") = 2
    /\ CountTag(ModuleOf(verilog_code, 0), "rom_init") = 3

(***************************************************************************)
(* Properties of the emitted logic, read as Verilog                        *)
(***************************************************************************)
\* the 16 bits a 16'h literal or a [15:0] wire keeps of an address
Low16(address) == LastN(address, 4)

\* the value the reset branch stores in entry `index` of the read ROM of an address
RomEntry(lines, address, index) ==
    LET inits == LinesOf(lines, "rom_init", "R", address)
    IN  inits[CHOOSE i \in 1..Len(inits) : inits[i][4] = index][5]

\* the non-blocking assignments to rd_rsp_data that a clock edge executes, in program
\* order, for a valid read request at an address that has a case arm, the address's
\* counter being `counter`: the arm's assignment and the assignment after endcase
ReadAssignments(lines, address, counter) ==
    LET Assigned(l) ==
            IF l[1] = "arm_single" /\ l[3] = "R" /\ Low16(l[4]) = Low16(address)
                THEN <<RomEntry(lines, l[4], l[5])>>
            ELSE IF l[1] = "rom_access" /\ l[2] = "R" /\ Low16(l[3]) = Low16(address)
                THEN <<RomEntry(lines, l[3], counter)>>
            ELSE IF l[1] = "rsp_default" THEN <<l[2]>>
            ELSE <<>>
    IN  Flatten([k \in 1..Len(lines) |-> Assigned(lines[k])])

\* the value rd_rsp_data takes: the last non-blocking assignment executed wins
ReadResponse(lines, address, counter) ==
    LET assigned == ReadAssignments(lines, address, counter)
    IN  assigned[Len(assigned)]

\* C14: in the emitted read logic, on a read request at an observed address A that the
\* read address check accepts, the value driven onto rd_rsp_data in that clock cycle
\* is the entry of A's ROM at the current value of A's counter (entry 0 when A has a
\* single value).
C14_ReadResponseFromRom ==
    (BuildDone /\ options.include_logic /\ options.init_roms /\ OperationEnabled("R")) =>
        LET trace == Observations(content) IN
        \A bar \in Bars, address \in ObservedAddresses(trace) :
            (HasModule(verilog_code, bar) /\ Occurrences(trace, bar, address, "R") # <<>>) =>
                \A counter \in 0..(Len(Occurrences(trace, bar, address, "R")) - 1) :
                    ReadResponse(ModuleOf(verilog_code, bar), address, counter)
                        = RomEntry(ModuleOf(verilog_code, bar), address, counter)

\* the lines of the address-check function of a direction: function to endfunction
AddressCheckOf(lines, operation) ==
    LET starts == {i \in 1..Len(lines) : lines[i] = <<"function", operation>>}
        first  == CHOOSE i \in starts : TRUE
        ends   == {j \in first..Len(lines) : lines[j][1] = "endfunction"}
    IN  IF starts = {} THEN <<>>
        ELSE SubSeq(lines, first, CHOOSE j \in ends : \A k \in ends : j <= k)

IsLabels(l) == l[1] = "labels"

\* the addresses of the one case item that returns 1: the labels of the label lines,
\* each line but the last ending in a comma, the last in a colon
CheckedAddresses(function) ==
    LET labels == SelectSeq(function, IsLabels)
    IN  Flatten([i \in 1..Len(labels) |-> labels[i][3]])

WellSeparated(function) ==
    LET labels == SelectSeq(function, IsLabels)
    IN  \A i \in 1..Len(labels) : labels[i][4] = (IF i < Len(labels) THEN "," ELSE ":")

\* C15: the read (write) address-check predicate of a BAR lists every address observed
\* for the BAR and direction exactly once and no other address, whatever their number;
\* it returns 1 for the listed addresses and 0 by default; a BAR without an address of
\* the direction has no predicate.
C15_AddressCheckMembership ==
    (BuildDone /\ options.include_address_checks) =>
        LET trace == Observations(content) IN
        \A first \in {i \in 1..Len(verilog_code) : verilog_code[i][1] = "module"} :
            \A operation \in EnabledOperations :
                LET bar      == verilog_code[first][2]
                    unique   == {pair[2] : pair \in {p \in EnabledPairs(trace, bar) : p[1] = operation}}
                    function == AddressCheckOf(ModuleAt(verilog_code, first), operation)
                    listed   == CheckedAddresses(function)
                IN  IF unique = {} THEN function = <<>>
                    ELSE /\ WellSeparated(function)
                         /\ Range(listed) = unique
                         /\ Len(listed) = Cardinality(unique)
                         /\ CountTag(function, "check") = 1
                         /\ \E k \in 1..Len(function) :
                               /\ function[k] = <<"check", operation, 1>>
                               /\ function[k - 1][1] = "labels"
                               /\ function[k + 1] = <<"default_check", operation, 0>>

\* nine registers read: a full line of eight labels and a line of one
C15_Witness ==
    /\ pc = "built"
    /\ content = AddressTrace(9)
    /\ options = DefaultOptions
    /\ Len(CheckedAddresses(AddressCheckOf(verilog_code, "R"))) = 9
    /\ Len(SelectSeq(AddressCheckOf(verilog_code, "R"), IsLabels)) = 2
    /\ Len(CheckedAddresses(AddressCheckOf(verilog_code, "W"))) = 4

\* the BARs the options select: those listed, or every BAR when none is listed
SelectedBars == IF options.bar_selection = <<>> THEN Bars ELSE Range(options.bar_selection)

\* C16: a selected BAR without observations produces no text, the output is empty when
\* no selected BAR has data, and otherwise the output holds exactly one module for each
\* selected BAR that has data and none for any other BAR.
C16_OneModulePerBarWithData ==
    BuildDone =>
        LET trace    == Observations(content)
            withData == {bar \in SelectedBars : \E i \in 1..Len(trace) : trace[i].bar = bar}
        IN  /\ withData = {} => verilog_code = <<>>
            /\ \A bar \in Bars :
                  Cardinality({i \in 1..Len(verilog_code) : verilog_code[i] = <<"module", bar>>})
                      = IF bar \in withData THEN 1 ELSE 0
            /\ CountTag(verilog_code, "endmodule") = Cardinality(withData)

(***************************************************************************)
(* Properties of the run                                                   *)
(***************************************************************************)
\* a text made of whole modules: it opens with a header, ends with a terminator, and
\* has as many terminators as headers
WholeModules(text) ==
    /\ text # <<>>
    /\ text[1][1] = "module"
    /\ text[Len(text)][1] = "endmodule"
    /\ CountTag(text, "module") = CountTag(text, "endmodule")

\* C17: in one run the output sink is written at most once, by the output step after
\* the build has finished, with the whole text of that build; a run whose input step
\* fails and a run whose build yields the empty text write nothing.
C17_NoPartialOutput ==
    /\ [](/\ Len(sink) <= 1
          /\ sink # <<>> => (pc = "done" /\ sink[1] = verilog_code /\ WholeModules(sink[1]))
          /\ pc = "failed" => sink = <<>>
          /\ (pc = "done" /\ verilog_code = <<>>) => sink = <<>>)
    /\ [][sink' # sink => (pc = "built" /\ pc' = "done" /\ sink' = Append(sink, verilog_code))]_vars

\* a run on a read and a write of BAR 0 has written its one text
C17_Witness ==
    /\ pc = "done"
    /\ content = <<ReadA, WriteD>>
    /\ options = DefaultOptions
    /\ sink = <<verilog_code>>
    /\ CountTag(sink[1], "endmodule") = 1

(***************************************************************************)
(* Properties of the feature flags                                         *)
(***************************************************************************)
FeatureFlags ==
    {"include_address_checks", "include_counters", "include_logic", "include_state_machines", "init_roms"}

\* the tags that open and close a fragment which a flag switches as a whole stretch
OpenTag(flag) ==
    IF flag = "include_address_checks" THEN "function" ELSE IF flag = "include_logic" THEN "if_begin" ELSE "none"

CloseTag(flag) ==
    IF flag = "include_address_checks" THEN "endfunction" ELSE IF flag = "include_logic" THEN "endmodule" ELSE "none"

\* line i lies in a stretch: some opening line at or before it has no closing line
\* between itself and line i
InStretch(i, opens, closes) ==
    \E first \in opens : first <= i /\ \A last \in closes : last < first \/ last >= i

\* line i belongs to a fragment of the kind that the flag switches
OfKind(text, i, flag, opens, closes) ==
    CASE flag = "include_counters" -> text[i][1] \in {"counter", "counter_reset"}
      [] flag = "include_state_machines" ->
            text[i][1] \in {"always_ff_begin", "if_rst_begin", "rst_rsp_valid", "end_else_begin", "latch_requests"}
      [] flag = "init_roms" ->
            \/ text[i][1] = "rom_init"
            \/ text[i] = Blank /\ i > 1 /\ text[i - 1][1] = "rom_init"
      [] flag = "include_address_checks" ->
            \/ InStretch(i, opens, closes)
            \/ text[i] = Blank /\ i > 1 /\ text[i - 1][1] = "endfunction"
      [] flag = "include_logic" -> text[i][1] # "endmodule" /\ InStretch(i, opens, closes)

\* lines first..last of the text without the lines of the flag's kind
RECURSIVE Kept(_, _, _, _, _, _)
Kept(text, flag, opens, closes, first, last) ==
    IF first > last THEN <<>>
    ELSE IF first = last
    THEN (IF OfKind(text, first, flag, opens, closes) THEN <<>> ELSE <<text[first]>>)
    ELSE LET middle == (first + last) \div 2
         IN  Kept(text, flag, opens, closes, first, middle) \o Kept(text, flag, opens, closes, middle + 1, last)

\* the text without the fragments of the kind that the flag switches
WithoutKind(text, flag) ==
    LET opens  == {i \in 1..Len(text) : text[i][1] = OpenTag(flag)}
        closes == {i \in 1..Len(text) : text[i][1] = CloseTag(flag)}
    IN  Kept(text, flag, opens, closes, 1, Len(text))

\* C18: each of the five flags switches exactly the fragments of its own kind: for every
\* text built with a flag on, the text built with that flag off and all else equal is
\* the first text less those fragments,
\* every other line unchanged and in place; and whatever the flags, a module has its
\* header, its terminator and a ROM declaration for every register observed for the
\* BAR in an enabled direction.
C18_IndependentFlags ==
    pc = "built" =>
        /\ \A flag \in {f \in FeatureFlags : options[f]} :
              LET off == build_verilog(Registry, processed_data, [options EXCEPT ![flag] = FALSE])
              IN  WithoutKind(verilog_code, flag) = off
        /\ LET trace == Observations(content) IN
            \A bar \in SelectedBars :
                (\E i \in 1..Len(trace) : trace[i].bar = bar) =>
                    /\ HasModule(verilog_code, bar)
                    /\ \A pair \in EnabledPairs(trace, bar) :
                          Len(LinesOf(ModuleOf(verilog_code, bar), "rom", pair[1], pair[2])) = 1

\* counters on and everything else off: the module is its header, its ROM and counter
\* declarations, its counter resets and its terminator
C18_Witness ==
    /\ pc = "built"
    /\ content = <<ReadA, ReadB, WriteD, ReadC>>
    /\ options = [DefaultOptions EXCEPT !.include_address_checks = FALSE, !.include_logic = FALSE,
                                        !.include_state_machines = FALSE, !.init_roms = FALSE]
    /\ CountTag(verilog_code, "counter") = 3
    /\ CountTag(verilog_code, "counter_reset") = 3
    /\ CountTag(verilog_code, "rom") = 3
    /\ CountTag(verilog_code, "function") + CountTag(verilog_code, "if_begin")
         + CountTag(verilog_code, "rom_init") + CountTag(verilog_code, "always_ff_begin") = 0

\* the accepted records seen so far, in order
AcceptedEntries == SelectSeq(SubSeq(parsed_results, 1, next_entry - 1), Accepted)

\* C19: the address stored in the registry is the last 5 hexadecimal digits of the
\* aligned address, zero-padded; aligned addresses that differ only above bit 19 are
\* stored under the same register address, and the values stored for a BAR, direction
\* and register are those of all such records, in the order of the trace.
C19_AddressTruncation ==
    pc = "ingest" =>
        /\ [i \in 1..Len(all_instances) |-> all_instances[i].address]
             = [i \in 1..Len(AcceptedEntries) |-> Register(AcceptedEntries[i].address)]
        /\ \A bar \in Bars, operation \in Operations, address \in ObservedAddresses(all_instances) :
              LET Same(entry) == /\ entry.bar = bar /\ entry.operation = operation
                                 /\ Register(entry.address) = address
                  merged == SelectSeq(AcceptedEntries, Same)
              IN  get_rom_values_for_address(Registry, bar, address, operation)
                    = [i \in 1..Len(merged) |-> merged[i].value]

\* f7000100, 1a00100 and f7000100 again read in BAR 0: one register, three values
C19_Witness ==
    /\ pc = "ingest"
    /\ parsed_results = <<EntryOf(ReadA), EntryOf(ReadAlias), EntryOf(ReadA)>>
    /\ next_entry = 4
    /\ ObservedAddresses(all_instances) = {<<"0", "0", "1", "0", "0">>}
    /\ get_rom_values_for_address(Registry, 0, <<"0", "0", "1", "0", "0">>, "R")
         = << <<"0", "0", "0", "0", "0", "0", "0", "5">>, <<"0", "0", "0", "0", "0", "0", "0", "3">>,
              <<"0", "0", "0", "0", "0", "0", "0", "5">> >>

(***************************************************************************)
(* The worked example                                                      *)
(***************************************************************************)
Register00100 == <<"0", "0", "1", "0", "0">>

Word5 == <<"0", "0", "0", "0", "0", "0", "0", "5">>

Word9 == <<"0", "0", "0", "0", "0", "0", "0", "9">>

ExampleBuilt == BuildDone /\ content = <<ReadA, ReadA9>> /\ options = DefaultOptions

\* the parts of the example on which text and code agree: one register 00100 in BAR 0,
\* the read values 00000005 and 00000009 in that order, a read ROM of two entries, an
\* address check listing that register alone
ExampleRegistryAndRom ==
    ExampleBuilt =>
        /\ ObservedAddresses(all_instances) = {Register00100}
        /\ \A i \in 1..Len(all_instances) : all_instances[i].bar = 0
        /\ get_rom_values_for_address(Registry, 0, Register00100, "R") = <<Word5, Word9>>
        /\ LET roms == LinesOf(verilog_code, "rom", "R", Register00100)
           IN  Len(roms) = 1 /\ roms[1][5] + 1 = 2
        /\ CheckedAddresses(AddressCheckOf(verilog_code, "R")) = <<Register00100>>
        /\ CountTag(verilog_code, "module") = 1

ExampleCounterWidth(width) ==
    ExampleBuilt =>
        LET counters == LinesOf(verilog_code, "counter", "R", Register00100)
        IN  Len(counters) = 1 /\ counters[1][4] + 1 = width

ExampleDefaultRead(value) == ExampleBuilt => get_default_values(Registry, 0)[1] = value

\* C20: processing the lines "R 1 100.000001 0 0xf7000100 0x5 0x0 0" and
\* "R 2 100.000002 0 0xf7000100 0x9 0x0 0" yields one registry address 00100 in BAR 0
\* with the read values 00000005, 00000009, a read ROM of size 2, a counter of width 1,
\* an address check holding exactly that address, and the default read value 00000005.
C20_RoundTripExample ==
    /\ ExampleRegistryAndRom
    /\ ExampleCounterWidth(1)
    /\ ExampleDefaultRead(Word5)

(***************************************************************************)
(* Properties of the counters and ROMs, read as Verilog                    *)
(***************************************************************************)
\* the values a counter of `width` bits takes, from `value` on, under the emitted step
\* "c <= (c == width'd<last>) ? width'd0 : c + 1"
RECURSIVE CounterValues(_, _, _, _)
CounterValues(width, last, value, seen) ==
    IF value \in seen THEN seen
    ELSE CounterValues(width, last, IF value = last THEN 0 ELSE (value + 1) % (2 ^ width), seen \cup {value})

\* C21: for every BAR, direction and address observed k > 1 times in the BAR, the
\* counter of the address in the BAR's logic is reset to 0, steps by one on each request
\* and wraps to 0 after k-1, so that it takes the values 0..k-1 only and never indexes
\* past the ROM declared [0:k-1]; also when the address was observed in another BAR.
C21_CounterInsideRom ==
    (BuildDone /\ options.include_logic /\ options.include_counters) =>
        LET trace == Observations(content) IN
        \A bar \in Bars, operation \in EnabledOperations, address \in ObservedAddresses(trace) :
            LET k == Len(Occurrences(trace, bar, address, operation)) IN
            (HasModule(verilog_code, bar) /\ k > 1) =>
                LET lines    == ModuleOf(verilog_code, bar)
                    steps    == LinesOf(lines, "counter_step", operation, address)
                    declared == LinesOf(lines, "counter", operation, address)
                    roms     == LinesOf(lines, "rom", operation, address)
                IN  /\ Len(steps) = 1 /\ Len(declared) = 1 /\ Len(roms) = 1
                    /\ Len(LinesOf(lines, "counter_reset", operation, address)) = 1
                    /\ roms[1][5] = k - 1
                    /\ CounterValues(declared[1][4] + 1, steps[1][5], 0, {}) = 0..(k - 1)

\* the lines at which a module of the text starts
ModuleStarts(code) == {i \in 1..Len(code) : code[i][1] = "module"}

\* C22: with ROM initialisation on, the ROM of every BAR, direction and address is
\* declared [0 : n-1], n being the number of values observed there, and is assigned
\* exactly the indices 0..n-1, each once; a ROM is declared if and only if it is
\* initialised.
C22_RomSizeMatchesInit ==
    (BuildDone /\ options.init_roms) =>
        LET trace == Observations(content) IN
        \A first \in ModuleStarts(verilog_code) :
            LET lines == ModuleAt(verilog_code, first)
                bar   == verilog_code[first][2]
            IN  /\ \A operation \in Operations, address \in ObservedAddresses(trace) :
                      LET n     == IF operation \in EnabledOperations
                                   THEN Len(Occurrences(trace, bar, address, operation)) ELSE 0
                          roms  == LinesOf(lines, "rom", operation, address)
                          inits == LinesOf(lines, "rom_init", operation, address)
                      IN  /\ Len(roms) = (IF n > 0 THEN 1 ELSE 0)
                          /\ \A i \in 1..Len(roms) : roms[i][5] = n - 1
                          /\ Len(inits) = n
                          /\ {inits[i][4] : i \in 1..Len(inits)} = 0..(n - 1)
                /\ \A i \in 1..Len(lines) :
                      lines[i][1] \in {"rom", "rom_init"} => lines[i][3] \in ObservedAddresses(trace)

\* BAR 0 read twice at register 00100 and written once at 003FC, BAR 1 read once: the
\* read ROM of 00100 in BAR 0 is [0:1] and is assigned the indices 0 and 1
C22_Witness ==
    /\ pc = "built"
    /\ content = <<ReadA, ReadB, WriteD, ReadC>>
    /\ options = DefaultOptions
    /\ LinesOf(ModuleOf(verilog_code, 0), "rom", "R", <<"0", "0", "1", "0", "0">>)
         = << <<"rom", "R", <<"0", "0", "1", "0", "0">>, 11, 1>> >>
    /\ Len(LinesOf(ModuleOf(verilog_code, 0), "rom_init", "R", <<"0", "0", "1", "0", "0">>)) = 2
    /\ Len(LinesOf(ModuleOf(verilog_code, 1), "rom_init", "R", <<"0", "0", "1", "0", "0">>)) = 1

(***************************************************************************)
(* Properties of the order of the addresses                                *)
(***************************************************************************)
\* the number a string of hexadecimal digits denotes (at most 7 digits)
RECURSIVE HexNat(_)
HexNat(s) == IF s = <<>> THEN 0 ELSE 16 * HexNat(SubSeq(s, 1, Len(s) - 1)) + HexVal(s[Len(s)])

\* the addresses of the ROM declarations of a direction, in the order of the text
DeclaredRoms(lines, operation) ==
    LET Test(l) == l[1] = "rom" /\ l[2] = operation
        sel == SelectSeq(lines, Test)
    IN  [i \in 1..Len(sel) |-> sel[i][3]]

\* the lines of the case statement of a direction's logic: "if (...) begin" to "default:"
LogicOf(lines, operation) ==
    LET starts == {i \in 1..Len(lines) : lines[i] = <<"if_begin", operation>>}
        first  == CHOOSE i \in starts : TRUE
        ends   == {j \in first..Len(lines) : lines[j][1] = "default"}
    IN  IF starts = {} THEN <<>>
        ELSE SubSeq(lines, first, CHOOSE j \in ends : \A k \in ends : j <= k)

\* the addresses after 16'h of the case arms of a direction's logic, in the order of the text
CaseArms(lines, operation) ==
    LET IsArm(l) == l[1] \in {"arm_single", "arm_begin"}
        arms == SelectSeq(LogicOf(lines, operation), IsArm)
    IN  [i \in 1..Len(arms) |-> IF arms[i][1] = "arm_single" THEN arms[i][4] ELSE arms[i][3]]

\* the list holds exactly the addresses of the set, each once, in ascending numeric order
AscendingListOf(list, set) ==
    /\ Range(list) = set
    /\ \A i \in 1..(Len(list) - 1) : HexNat(list[i]) < HexNat(list[i + 1])

\* C23: the ROM declarations, the address-check list and the case arms of the logic of
\* a BAR and direction each list the distinct observed addresses in ascending numeric
\* order without repetition, whatever the order in which the trace shows them.
C23_AscendingAddressOrder ==
    BuildDone =>
        LET trace == Observations(content) IN
        \A first \in ModuleStarts(verilog_code), operation \in EnabledOperations :
            LET lines  == ModuleAt(verilog_code, first)
                bar    == verilog_code[first][2]
                unique == {pair[2] : pair \in {p \in EnabledPairs(trace, bar) : p[1] = operation}}
            IN  /\ AscendingListOf(DeclaredRoms(lines, operation), unique)
                /\ options.include_address_checks =>
                      AscendingListOf(CheckedAddresses(AddressCheckOf(lines, operation)), unique)
                /\ options.include_logic => AscendingListOf(CaseArms(lines, operation), unique)

\* registers 00008, 00004, 00000 read in that order and 00000 written
C23_Witness ==
    /\ pc = "built"
    /\ content = AddressTrace(3)
    /\ options = DefaultOptions
    /\ [i \in 1..3 |-> all_instances[i].address]
         = << <<"0", "0", "0", "0", "8">>, <<"0", "0", "0", "0", "4">>, <<"0", "0", "0", "0", "0">> >>
    /\ DeclaredRoms(verilog_code, "R")
         = << <<"0", "0", "0", "0", "0">>, <<"0", "0", "0", "0", "4">>, <<"0", "0", "0", "0", "8">> >>
    /\ CaseArms(verilog_code, "R") = DeclaredRoms(verilog_code, "R")
    /\ CheckedAddresses(AddressCheckOf(verilog_code, "R")) = DeclaredRoms(verilog_code, "R")

(***************************************************************************)
(* Properties of the aligned value as a 32-bit number                      *)
(***************************************************************************)
\* bit j, bit 0 being the least significant, of the number a string of hexadecimal
\* digits denotes
BitOf(digits, j) ==
    IF j < 0 \/ j \div 4 >= Len(digits) THEN 0
    ELSE (HexVal(digits[Len(digits) - (j \div 4)]) \div (2 ^ (j % 4))) % 2

\* the byte lane the last character of a raw address selects
LaneOf(addr) == IF IsHexChar(addr[Len(addr)]) THEN HexVal(addr[Len(addr)]) % 4 ELSE 0

\* the value as parse_content hands it on and as the registry stores it
StoredValue(hex_value) == format_value(remove_0x(FormatHex(HexInt(hex_value), 8, UpperHex)), FALSE)

\* C24: for every raw value v, also one wider than a byte or than 32 bits, and every
\* lane, the aligned value is (v << lane*8) mod 2^32, bit for bit, written as exactly 8
\* hexadecimal digits; the value the registry stores for it is the same number in
\* exactly 8 digits, so it lies in [0, 2^32 - 1].
C24_ShiftedValueIs32Bit ==
    pc = "aligned" =>
        \A v \in {DropFirst(align_in[2], 2)}, lane \in {LaneOf(align_in[1])} :
            /\ IsHexWord(align_out[2], 8)
            /\ \A j \in 0..31 :
                  BitOf(align_out[2], j) = (IF j >= 8 * lane THEN BitOf(v, j - 8 * lane) ELSE 0)
            /\ \A stored \in {StoredValue(align_out[2])} :
                  /\ IsHexWord(stored, 8)
                  /\ \A j \in 0..31 : BitOf(stored, j) = BitOf(align_out[2], j)

\* the 36-bit value 0x123456789 at lane 3: only its low byte stays in the word
C24_Witness ==
    /\ pc = "aligned"
    /\ align_in = << <<"0", "x", "1", "F", "F">>, <<"0", "x", "1", "2", "3", "4", "5", "6", "7", "8", "9">> >>
    /\ align_out[2] = <<"8", "9", "0", "0", "0", "0", "0", "0">>

(***************************************************************************)
(* Properties of the calls on the orchestrator                             *)
(***************************************************************************)
\* C25: the text a call for a BAR, direction and fragment kind returns depends on the
\* registry and on those three arguments only: it is the text the same call returns as
\* the first call on a new orchestrator, whatever calls for other BARs, directions or
\* kinds were made before it, and a repeated call returns the same text; it is the
\* text that the build takes the call to return.
C25_FragmentIndependence ==
    /\ \A i \in 1..Len(returned) :
          /\ returned[i].text
               = orchestrator_build_verilog(NewOrchestrator, Registry, returned[i].operation,
                                            returned[i].bar_number, returned[i].field_type).text
          /\ returned[i].text
               = builder_build_verilog(Registry, returned[i].operation, returned[i].bar_number,
                                       returned[i].field_type)
    /\ \A i \in 1..Len(returned), j \in 1..Len(returned) :
          (/\ returned[i].operation = returned[j].operation
           /\ returned[i].bar_number = returned[j].bar_number
           /\ returned[i].field_type = returned[j].field_type) => returned[i].text = returned[j].text

\* the read counters of BAR 1, then those of BAR 0, which was only written: the second
\* call returns nothing although the first returned a counter
C25_Witness ==
    /\ pc = "calls"
    /\ content = <<ReadC, WriteD>>
    /\ Len(returned) = 2
    /\ [k \in 1..2 |-> <<returned[k].operation, returned[k].bar_number, returned[k].field_type>>]
         = << <<"read", 1, "counter">>, <<"read", 0, "counter">> >>
    /\ returned[1].text = << <<"counter", "R", <<"0", "0", "1", "0", "0">>, 0>> >>
    /\ returned[2].text = <<>>
    /\ DOMAIN verilog_orch.generator_instances = {"counter"}

(***************************************************************************)
(* Properties of a direction without data                                  *)
(***************************************************************************)
\* a line that belongs to a fragment of one direction
OfDirection(l, operation) ==
    \/ /\ l[1] \in {"rom", "rom_init", "counter", "counter_reset", "function", "check",
                    "default_check", "if_begin", "case", "counter_step", "rom_access", "default"}
       /\ l[2] = operation
    \/ l[1] = "arm_single" /\ l[3] = operation

OtherDirection(operation) == IF operation = "R" THEN "W" ELSE "R"

\* C26: a selected BAR that has observations but none in a requested direction still
\* gets its module (the build does not fail); the module holds no ROM declaration,
\* ROM initialisation, counter, counter reset, address check or logic line of that
\* direction, and when both directions are requested it is line for line the module
\* built for that BAR with only the other direction requested.
C26_DirectionWithoutData ==
    BuildDone =>
        LET trace == Observations(content) IN
        \A bar \in SelectedBars, operation \in EnabledOperations :
            (/\ \E i \in 1..Len(trace) : trace[i].bar = bar
             /\ ~\E i \in 1..Len(trace) : trace[i].bar = bar /\ trace[i].operation = operation) =>
                /\ HasModule(verilog_code, bar)
                /\ \A lines \in {ModuleOf(verilog_code, bar)} :
                      /\ \A i \in 1..Len(lines) : ~OfDirection(lines[i], operation)
                      /\ options.operation_filter = "B" =>
                            lines = build_verilog(Registry, processed_data,
                                        [options EXCEPT !.operation_filter = OtherDirection(operation),
                                                        !.bar_selection = <<bar>>])

\* BAR 1 is read once and never written, both directions are requested and every
\* fragment is on: its module holds the read ROM and the read logic and nothing of
\* the write direction
C26_Witness ==
    /\ pc = "built"
    /\ content = <<ReadA, ReadB, WriteD, ReadC>>
    /\ options = DefaultOptions
    /\ HasModule(verilog_code, 1)
    /\ Len(LinesOf(ModuleOf(verilog_code, 1), "rom", "R", <<"0", "0", "1", "0", "0">>)) = 1
    /\ \E i \in 1..Len(ModuleOf(verilog_code, 1)) : ModuleOf(verilog_code, 1)[i] = <<"if_begin", "R">>
    /\ \A i \in 1..Len(ModuleOf(verilog_code, 1)) : ~OfDirection(ModuleOf(verilog_code, 1)[i], "W")

(***************************************************************************)
(* Properties of the block structure                                       *)
(***************************************************************************)
\* the number of blocks open after the lines: "begin" opens one, "end" closes one,
\* "end else begin" closes one and opens one; -1 once an "end" closes nothing
RECURSIVE OpenBlocks(_)
OpenBlocks(lines) ==
    IF lines = <<>> THEN 0
    ELSE LET before == OpenBlocks(SubSeq(lines, 1, Len(lines) - 1))
             tag    == lines[Len(lines)][1]
         IN  IF before < 0 THEN -1
             ELSE IF tag \in {"always_ff_begin", "if_rst_begin", "if_begin", "arm_begin", "begin"}
             THEN before + 1
             ELSE IF tag = "end" THEN before - 1
             ELSE IF tag = "end_else_begin" THEN (IF before = 0 THEN -1 ELSE before)
             ELSE before

\* C27: in every emitted module, whatever the operation filter and the feature flags,
\* every "end" closes a block opened before it and no block is left open at the
\* module terminator.
C27_BalancedBlocks ==
    BuildDone =>
        \A first \in ModuleStarts(verilog_code) :
            OpenBlocks(ModuleAt(verilog_code, first)) = 0

(***************************************************************************)
(* Properties of the names the logic refers to                             *)
(***************************************************************************)
\* the declarations a line of the response logic refers to: the address check function
\* in the guard of the logic, the ROM in a case arm, the counter and the ROM in the
\* two lines of a counted arm
ReferredBy(l) ==
    IF l[1] = "if_begin" THEN {<<"function", l[2]>>}
    ELSE IF l[1] = "arm_single" THEN {<<"rom", l[3], l[4]>>}
    ELSE IF l[1] = "counter_step" THEN {<<"counter", l[2], l[3]>>}
    ELSE IF l[1] = "rom_access" THEN {<<"rom", l[2], l[3]>>, <<"counter", l[2], l[3]>>}
    ELSE {}

\* the name a line declares, if it is a declaration
DeclaredBy(l) ==
    IF l[1] = "function" THEN {<<"function", l[2]>>}
    ELSE IF l[1] \in {"rom", "counter"} THEN {<<l[1], l[2], l[3]>>}
    ELSE {}

\* C28: whenever the logic fragment is emitted, every ROM, counter and address check
\* function a line of the logic refers to is declared by a line of the same module.
C28_ReferenceClosure ==
    (BuildDone /\ options.include_logic) =>
        \A first \in ModuleStarts(verilog_code) :
            \A lines \in {ModuleAt(verilog_code, first)} :
                \A i \in 1..Len(lines) :
                    \A name \in ReferredBy(lines[i]) :
                        \E j \in 1..Len(lines) : name \in DeclaredBy(lines[j])

(***************************************************************************)
(* Properties of the width of the addresses                                *)
(***************************************************************************)
\* the 20-bit number that `bits` bits keep of a 5-digit address, as 5 digits: what a
\* wire [bits-1:0] carries of the address and what a bits'h literal denotes
Keep(address, bits) == [i \in 1..(5 - bits \div 4) |-> "0"] \o LastN(address, bits \div 4)

\* the local address wire the logic of a direction switches on
LocalWire(lines, operation) ==
    LET name == IF operation = "R" THEN "local_read_addr" ELSE "local_write_addr"
    IN  lines[CHOOSE i \in 1..Len(lines) : lines[i][1] = "wire" /\ lines[i][3] = name]

\* the values the labels of the address check of a direction denote
CheckedValues(lines, operation) ==
    LET labels == SelectSeq(AddressCheckOf(lines, operation), IsLabels)
    IN  UNION {{Keep(labels[i][3][k], labels[i][2]) : k \in 1..Len(labels[i][3])} : i \in 1..Len(labels)}

\* the case arms of the logic of a direction as <<value of the label, address of the arm>>
ArmLabels(lines, operation) ==
    LET IsArm(l) == l[1] \in {"arm_single", "arm_begin"}
        arms == SelectSeq(LogicOf(lines, operation), IsArm)
    IN  [i \in 1..Len(arms) |->
            IF arms[i][1] = "arm_single"
            THEN <<Keep(arms[i][4], arms[i][2]), arms[i][4]>>
            ELSE <<Keep(arms[i][3], arms[i][2]), arms[i][3]>>]

\* C29: for every observed address A of a BAR and direction, with the value the local
\* address wire carries for a request at A: the address check, when emitted, lists that
\* value; the first case arm of the logic, when emitted, whose label equals that value
\* is the arm of A; and no two case arms have the same label.
C29_AddressWidthConsistency ==
    BuildDone =>
        LET trace == Observations(content) IN
        \A first \in ModuleStarts(verilog_code) :
            \A lines \in {ModuleAt(verilog_code, first)} :
                \A pair \in EnabledPairs(trace, verilog_code[first][2]) :
                    LET operation == pair[1]
                        address   == pair[2]
                        carried   == Keep(address, LocalWire(lines, operation)[2] + 1)
                        arms      == ArmLabels(lines, operation)
                        matching  == {i \in 1..Len(arms) : arms[i][1] = carried}
                    IN  /\ options.include_address_checks => carried \in CheckedValues(lines, operation)
                        /\ options.include_logic =>
                              /\ matching # {}
                              /\ \A i \in matching : (\A j \in matching : i <= j) => arms[i][2] = address
                              /\ \A i, j \in 1..Len(arms) : arms[i][1] = arms[j][1] => i = j

(***************************************************************************)
(* Properties of the width of the ROMs                                     *)
(***************************************************************************)
\* C30: every ROM declared in a module is at least 1 bit wide and at least as wide as
\* the bit length of every value the ROM initialisation of that module assigns to it,
\* and every initialisation line assigns to a ROM the module declares.
C30_RomWidthCoversContents ==
    BuildDone =>
        \A first \in ModuleStarts(verilog_code) :
            \A lines \in {ModuleAt(verilog_code, first)} :
                \A i \in 1..Len(lines) :
                    /\ lines[i][1] = "rom" =>
                          /\ lines[i][4] + 1 >= 1
                          /\ \A j \in 1..Len(lines) :
                                (/\ lines[j][1] = "rom_init"
                                 /\ lines[j][2] = lines[i][2]
                                 /\ lines[j][3] = lines[i][3]) =>
                                    BitLength(HexInt(lines[j][5])) <= lines[i][4] + 1
                    /\ lines[i][1] = "rom_init" =>
                          Len(LinesOf(lines, "rom", lines[i][2], lines[i][3])) = 1

\* register 00100 is read as 0x900 and then as 0x5 in BAR 0 and as 0 in BAR 1: both
\* ROMs are 12 bits wide, the one of BAR 0 holds 00000900 and 00000005, the one of
\* BAR 1 holds 00000000
C30_Witness ==
    /\ pc = "built"
    /\ content = <<ReadB, ReadC, ReadA>>
    /\ options = DefaultOptions
    /\ LinesOf(ModuleOf(verilog_code, 0), "rom", "R", <<"0", "0", "1", "0", "0">>)
         = << <<"rom", "R", <<"0", "0", "1", "0", "0">>, 11, 1>> >>
    /\ LinesOf(ModuleOf(verilog_code, 0), "rom_init", "R", <<"0", "0", "1", "0", "0">>)
         = << <<"rom_init", "R", <<"0", "0", "1", "0", "0">>, 0, <<"0","0","0","0","0","9","0","0">>>>,
              <<"rom_init", "R", <<"0", "0", "1", "0", "0">>, 1, <<"0","0","0","0","0","0","0","5">>>> >>
    /\ LinesOf(ModuleOf(verilog_code, 1), "rom", "R", <<"0", "0", "1", "0", "0">>)
         = << <<"rom", "R", <<"0", "0", "1", "0", "0">>, 11, 0>> >>

====
